---- MODULE Spec2Model ----
(***************************************************************************)
(* A model of the DEX Manager test harness (Challenge_QA_SIA): the polling *)
(* helper WaitHelper.waitWithBackoff, the Base Interaction Layer           *)
(* (BasePage), the ContentPage page object with the folder scenarios that  *)
(* drive it, and the dialog handlers of BasePage.                          *)
(*                                                                         *)
(* The specifications share the variables; each leaves the variables of   *)
(* the other parts at their initial value:                                 *)
(*   SpecBackoff  waitWithBackoff                      (src/utils/helpers) *)
(*   SpecBase     the BasePage methods, called on the folder UI            *)
(*   SpecPage     ContentPage's folder operations, TC-01-01 .. TC-01-03    *)
(*   SpecDialog   acceptAlert / dismissAlert and the dialogs they handle   *)
(*   SpecUpload   uploadMultipleFiles / uploadByDragAndDrop                *)
(*   SpecSelect   selection and deletion of items                          *)
(*   SpecView     the view modes, TC-03-04                                 *)
(*   SpecSetup    globalSetup                                              *)
(*   SpecSuite    one run of the suite: globalSetup, the tests, teardown   *)
(*   SpecEnv      the import of the environment configuration module       *)
(*   SpecData     TestDataHelper.loadTestData                              *)
(*   SpecAuth     LoginPage and the authenticatedContext fixture           *)
(*   SpecPropagate  a caller of the folder operations or of LoginPage      *)
(*   SpecDownload   ContentPage.downloadSelectedContent and the browser    *)
(*   SpecConstruct  the constructor of ContentPage and its locator fields  *)
(***************************************************************************)
EXTENDS Integers, Sequences, FiniteSets, TLC

VARIABLES
    \* ---- WaitHelper.waitWithBackoff (one call at a time)
    wbPc,        \* "idle" | "loop" | "cond" | "sleep" | "returned" | "thrown"
    maxAttempts, \* the call's maxAttempts argument
    baseDelay,   \* the call's baseDelay argument
    attempt,     \* the local variable attempt
    wbLog,       \* what the call did so far: evaluations, sleeps, the throw
    \* ---- BasePage.acceptAlert / dismissAlert (one page)
    handlers,      \* the page's 'dialog' listeners, in registration order
    dlgCalls,      \* the last dialog: each listener's call on it, in order
    dlgResolvedBy, \* the last dialog: what resolved it
    dlgSeen,       \* dialogs the page has raised
    dlgRejected,   \* listener promises that were rejected (never awaited)
    \* ---- the application's folder UI, as the page object sees it
    flow,        \* "Closed" | "MenuOpen" | "DialogOpen" | "NameEntered" | "Submitted"
    nameField,   \* the text of the "Nuevo Nombre" input of the open dialog
    folders,     \* the names shown in #dexFilesTree
    \* ---- the application's content area (the open folder), as seen by the page
    items,       \* the titles of the .media-card items, in document order
    checked,     \* the titles of the items whose checkbox is checked
    hovered,     \* the title of the card under the mouse, <<>> for none
    uploads,     \* the files attached to the upload control: [file, st], st
                 \* "uploading" | "success" | "failed"
    viewMode,    \* the view option whose aria-selected is 'true', "none" for none
    viewOptions, \* the view options while their menu is closed:
                 \* "absent" | "attached"
    \* ---- one page object (BasePage / ContentPage) and the test that uses it
    call,        \* the operation under way or last made: [op, loc, name, name2]
    folders0,    \* the names #dexFilesTree showed when that operation began
    page0,       \* the items and the checked items when that operation began
    script,      \* the driver operations the operation has still to issue
    log,         \* the driver operations it has issued, with their outcome
    status,      \* "idle" | "running" | "returned" | "threw"
    ret,         \* the value returned or last computed: "void" | "true" | "false"
    err,         \* the error thrown: "none" | "TimeoutError" | "Error" | "AssertionError"
    floating,    \* the assertion a test started without awaiting it:
                 \* "none" | "pending" | "passed" | "failed" | "aborted"
    testStatus,  \* "none" | "passed" | "failed"
    \* ---- globalSetup (one run)
    procEnv,     \* process.env before the run: key -> "unset" | "empty" | "set"
    dotEnv,      \* the .env file: key -> "unset" | "empty" | "set"
    gsStatus,    \* "idle" | "running" | "done" | "failed"
    gsPc,        \* the step of globalSetup that comes next
    gsLog,       \* the steps made so far: [step, ok]
    gsMissing,   \* the variables the error message names
    gsUrl,       \* the URL of the login page: "blank" | "login" | "dashboard"
    \* ---- one run of the suite (playwright.config.ts)
    suitePc,     \* "setup" | "tests" | "teardown" | "done"
    ctx,         \* each test's browser context: [pc, loaded, state]
    testWrites,  \* the tests that wrote auth/storageState.json, in order
    \* ---- the import of the environment configuration module
    envStatus,   \* "idle" | "loading" | "loaded" | "threw" | "exited"
    envPc,       \* the statement of the module that comes next
    envLog,      \* what the import did so far: [step, names]
    \* ---- TestDataHelper.loadTestData (one call)
    dataFile,    \* the file at filePath: [readable, json, fields, numbers]
    dataStatus,  \* "idle" | "reading" | "returned" | "threw"
    \* ---- LoginPage on one page, and the authenticatedContext fixture
    auCall,      \* the operation under way or last made
    auScript,    \* the steps it has still to make
    auLog,       \* the steps it has made: [step, out]
    auStatus,    \* "idle" | "running" | "returned" | "threw"
    auErr,       \* the error thrown: "none" | "TimeoutError" | "Error" | "LoginFailed"
    auRet,       \* the value returned or last computed: "void" | "true" | "false"
    auUrl,       \* page.url(), without the origin
    auSession,   \* the application's answer to the login: "none" | "accepted" | "rejected"
    auContext,   \* the context the fixture made: "none" | "open" | "closed"
    \* ---- ContentPage.downloadSelectedContent, and the browser beside it
    dlPc,        \* "idle" | "click" | "waitForEvent" | "await" | "returned" | "threw"
    dlStarted,   \* the click of this call started a download
    dlPending,   \* the browser has a 'download' event still to emit
    dlListener,  \* page.waitForEvent('download') is listening
    dlResolved,  \* the promise of waitForEvent has the event
    dlLog,       \* what happened on the page, in order
    \* ---- one ContentPage object: its constructor and its locator fields
    cpPc,        \* the assignment of the constructor that comes next
    cpAssigned,  \* the fields that have a value
    cpCall,      \* the last call made on the object: [op, name]
    cpResult     \* its result: "none" | "locator" | "true" | "false" | "TypeError"

wbVars == <<wbPc, maxAttempts, baseDelay, attempt, wbLog>>

dlgVars == <<handlers, dlgCalls, dlgResolvedBy, dlgSeen, dlgRejected>>

contentVars == <<items, checked, hovered, uploads, viewMode, viewOptions>>

appVars == <<flow, nameField, folders, contentVars>>

poVars == <<call, folders0, page0, script, log, status, ret, err, floating, testStatus>>

gsVars == <<procEnv, dotEnv, gsStatus, gsPc, gsLog, gsMissing, gsUrl>>

suiteVars == <<suitePc, ctx, testWrites>>

envVars == <<envStatus, envPc, envLog>>

dataVars == <<dataFile, dataStatus>>

auVars ==
    <<auCall, auScript, auLog, auStatus, auErr, auRet, auUrl, auSession, auContext>>

dlVars == <<dlPc, dlStarted, dlPending, dlListener, dlResolved, dlLog>>

cpVars == <<cpPc, cpAssigned, cpCall, cpResult>>

vars ==
    <<wbVars, dlgVars, appVars, poVars, gsVars, suiteVars, envVars, dataVars, auVars,
      dlVars, cpVars>>

\* what an action of one part leaves alone
notWb == <<dlgVars, appVars, poVars, gsVars, suiteVars, envVars, dataVars, auVars, dlVars, cpVars>>
notDlg == <<wbVars, appVars, poVars, gsVars, suiteVars, envVars, dataVars, auVars, dlVars, cpVars>>
notPage == <<wbVars, dlgVars, gsVars, suiteVars, envVars, dataVars, auVars, dlVars, cpVars>>
notGs == <<wbVars, dlgVars, appVars, poVars, suiteVars, envVars, dataVars, auVars, dlVars, cpVars>>
notSuite == <<wbVars, dlgVars, appVars, poVars, envVars, dataVars, auVars, dlVars, cpVars>>
notEnv == <<wbVars, dlgVars, appVars, poVars, suiteVars, dataVars, auVars, dlVars, cpVars>>
notData == <<wbVars, dlgVars, appVars, poVars, gsVars, suiteVars, envVars, auVars, dlVars, cpVars>>
notAu ==
    <<wbVars, dlgVars, appVars, poVars, gsVars, suiteVars, envVars, dataVars, dlVars,
      cpVars>>
notDl ==
    <<wbVars, dlgVars, appVars, poVars, gsVars, suiteVars, envVars, dataVars, auVars,
      cpVars>>
notCp ==
    <<wbVars, dlgVars, appVars, poVars, gsVars, suiteVars, envVars, dataVars, auVars,
      dlVars>>

(***************************************************************************)
(* Bounds of the model.                                                    *)
(***************************************************************************)
MaxAttemptsArg == 4
MaxBaseDelay == 3
MaxHandlers == 3
MaxDialogs == 3
MaxFiles == 3
MaxSwitches == 3
MaxDownloadCalls == 3

Last(s) == s[Len(s)]

(***************************************************************************)
(* WaitHelper.waitWithBackoff (helpers.ts 262-280).                        *)
(***************************************************************************)
\* Math.pow(2, attempt), for the attempt indexes a call reaches
Pow2(n) == 2 ^ n

WbDelayLinear(base, att) == base * (att + 1)

\* const delay = baseDelay * Math.pow(2, attempt)
WbDelay(base, att) == base * Pow2(att)

WbLoopTestInclusive(att, max) == att <= max

\* while (attempt < maxAttempts)
WbLoopTest(att, max) == att < max

WbAfterConditionNoReturn(r) == "sleep"

\* if (await condition()) { return; }
WbAfterCondition(r) == IF r THEN "returned" ELSE "sleep"

\* the arguments a caller passes: maxAttempts may be zero or negative
AttemptArgs == -1 .. MaxAttemptsArg
DelayArgs == 0 .. MaxBaseDelay

\* the call: let attempt = 0
WbCall ==
    /\ wbPc \in {"idle", "returned", "thrown"}
    /\ \E m \in AttemptArgs, b \in DelayArgs :
          /\ maxAttempts' = m
          /\ baseDelay' = b
    /\ attempt' = 0
    /\ wbLog' = <<>>
    /\ wbPc' = "loop"
    /\ UNCHANGED notWb

\* the loop test, and the throw after the loop
WbLoop ==
    /\ wbPc = "loop"
    /\ IF WbLoopTest(attempt, maxAttempts)
          THEN /\ wbPc' = "cond"
               /\ wbLog' = wbLog
          ELSE /\ wbPc' = "thrown"
               /\ wbLog' = Append(wbLog, [ev |-> "throw", att |-> attempt,
                                           val |-> maxAttempts, res |-> FALSE])
    /\ UNCHANGED <<maxAttempts, baseDelay, attempt, notWb>>

\* await condition(): the caller's condition answers either way
WbCondition ==
    /\ wbPc = "cond"
    /\ \E r \in BOOLEAN :
          /\ wbLog' = Append(wbLog, [ev |-> "eval", att |-> attempt,
                                      val |-> 0, res |-> r])
          /\ wbPc' = WbAfterCondition(r)
    /\ UNCHANGED <<maxAttempts, baseDelay, attempt, notWb>>

\* the sleep of delay ms, then attempt++
WbSleep ==
    /\ wbPc = "sleep"
    /\ wbLog' = Append(wbLog, [ev |-> "sleep", att |-> attempt,
                                val |-> WbDelay(baseDelay, attempt), res |-> FALSE])
    /\ attempt' = attempt + 1
    /\ wbPc' = "loop"
    /\ UNCHANGED <<maxAttempts, baseDelay, notWb>>

(***************************************************************************)
(* BasePage.acceptAlert / dismissAlert (BasePage.ts 140-153). Each call    *)
(* adds a listener with page.on('dialog', ...); none is ever removed. When *)
(* the page raises a dialog the listeners run in registration order, each  *)
(* up to its own call on the dialog: the first call resolves the dialog,   *)
(* every later call is rejected because the dialog is already handled. A   *)
(* page with no listener dismisses the dialog itself.                      *)
(***************************************************************************)
\* this.page.on('dialog', async dialog => { await dialog.accept(); })
AcceptAlert ==
    /\ Len(handlers) < MaxHandlers
    /\ handlers' = Append(handlers, "accept")
    /\ UNCHANGED <<dlgCalls, dlgResolvedBy, dlgSeen, dlgRejected, notDlg>>

\* this.page.on('dialog', async dialog => { await dialog.dismiss(); })
DismissAlert ==
    /\ Len(handlers) < MaxHandlers
    /\ handlers' = Append(handlers, "dismiss")
    /\ UNCHANGED <<dlgCalls, dlgResolvedBy, dlgSeen, dlgRejected, notDlg>>

\* the calls the listeners make on one dialog: only the first finds it open
DialogCalls(hs) == [i \in 1 .. Len(hs) |-> [policy |-> hs[i], ok |-> (i = 1)]]

\* the page raises a dialog: every registered listener is invoked
DialogEvent ==
    /\ dlgSeen < MaxDialogs
    /\ dlgSeen' = dlgSeen + 1
    /\ dlgCalls' = DialogCalls(handlers)
    /\ dlgResolvedBy' = IF handlers = <<>> THEN "auto-dismiss" ELSE handlers[1]
    /\ dlgRejected' = dlgRejected + (IF handlers = <<>> THEN 0 ELSE Len(handlers) - 1)
    /\ UNCHANGED <<handlers, notDlg>>

(***************************************************************************)
(* Names. A name is a sequence of characters. The names a test passes are  *)
(* drawn from SampleNames: two names the application accepts, one name for *)
(* each forbidden character, and two that mix both kinds.                  *)
(***************************************************************************)
\* the characters DEX Manager refuses in a folder name:  \ / : * ? " < > |
ForbiddenChars == {"\\", "/", ":", "*", "?", "\"", "<", ">", "|"}

HasForbidden(name) == \E i \in 1 .. Len(name) : name[i] \in ForbiddenChars

Names ==
    {<<"a">>, <<"a", "b">>, <<"a", "/">>, <<"*", "a">>}
        \cup {<<c>> : c \in ForbiddenChars}

\* DataGenerator.generateFolderName: a name without forbidden characters
GeneratedNames == {n \in Names : ~HasForbidden(n)}

\* the files a test uploads; an item's title is the file's name
FileChars == <<"1", "2", "3", "4", "5">>

File(i) == <<FileChars[i]>>

Files == {File(i) : i \in 1 .. MaxFiles}

\* the lists of file paths a test passes: 1 .. MaxFiles different files
RECURSIVE FileLists(_)
FileLists(n) ==
    IF n = 0 THEN {<<>>}
    ELSE LET shorter == FileLists(n - 1)
         IN  shorter \cup {Append(fl, f) : fl \in {x \in shorter : Len(x) = n - 1},
                                           f \in Files}

Range(q) == {q[i] : i \in 1 .. Len(q)}

FilePathLists ==
    {fl \in FileLists(MaxFiles) : fl # <<>> /\ Cardinality(Range(fl)) = Len(fl)}

(***************************************************************************)
(* Locators (ContentPage constructor). A locator is a description, resolved*)
(* against the page each time it is used.                                  *)
(***************************************************************************)
Loc(id) == [id |-> id, name |-> <<>>]

contentMediaLibraryButton == Loc("contentMediaLibraryButton")
contentHeader == Loc("contentHeader")
addButton == Loc("addButton")
folderOption == Loc("folderOption")
folderNameInput == Loc("folderNameInput")
acceptButton == Loc("acceptButton")
cancelButton == Loc("cancelButton")
confirmDialog == Loc("confirmDialog")
folderCreated(name) == [id |-> "folderCreated", name |-> name]

\* page.locator('#dexFilesTree').getByText(text): an entry whose text contains
\* text (getByText without exact matches substrings)
treeText(text) == [id |-> "treeText", name |-> text]

\* page.locator('#dexFilesTree').getByText('/'): the root of the tree
rootNode == Loc("rootNode")

uploadFilesButton == Loc("uploadFilesButton")
fileInput == Loc("fileInput")
uploadSuccess == Loc("uploadSuccess")

\* page.locator('div:nth-child(k) > .horizontal > .file-status-icon > .success')
SuccessIds == <<"fileSuccess1", "fileSuccess2", "fileSuccess3", "fileSuccess4">>

fileSuccess(k) == Loc(SuccessIds[k])

selectItems == Loc("selectItems")
selectAllCheckbox == Loc("selectAllCheckbox")
selectNoneCheckbox == Loc("selectNoneCheckbox")
deleteButton == Loc("deleteButton")
confirmDeleteButton == acceptButton
loadingSpinner == Loc("loadingSpinner")
viewModeButton == Loc("viewModeButton")
gridViewButton == Loc("gridViewButton")
listViewButton == Loc("listViewButton")
cardViewButton == Loc("cardViewButton")

\* page.locator(`.media-card[title="${name}"]`) and its .media-card-checkbox
contentItem(name) == [id |-> "contentItem", name |-> name]

cardCheckbox(name) == [id |-> "cardCheckbox", name |-> name]

\* page.locator('.media-card paper-checkbox[role="checkbox"]') and its nth(i)
checkboxes == Loc("checkboxes")

IndexChars == <<"0", "1", "2", "3", "4">>

nth(i) == [id |-> "checkboxNth", name |-> <<IndexChars[i + 1]>>]

NthIndex(l) == CHOOSE i \in 0 .. (Len(IndexChars) - 1) : IndexChars[i + 1] = l.name[1]

SelectOptions == {selectAllCheckbox, selectNoneCheckbox}

ViewOptions == {gridViewButton, listViewButton, cardViewButton}

\* the value of each view option
ViewValue(l) ==
    CASE l = gridViewButton -> "grid"
      [] l = listViewButton -> "list"
      [] l = cardViewButton -> "card"

StaticLocators ==
    {contentMediaLibraryButton, contentHeader, addButton, folderOption,
     folderNameInput, acceptButton, cancelButton, confirmDialog}

DialogControls == {folderNameInput, acceptButton, cancelButton, confirmDialog}

(***************************************************************************)
(* The application under test, as far as the folder flow shows it: the     *)
(* state machine Closed -> MenuOpen -> DialogOpen -> NameEntered ->        *)
(* Submitted -> Closed. In DialogOpen the confirm control is disabled      *)
(* (no name yet, or a name with a forbidden character).                    *)
(***************************************************************************)
FolderDialogIsOpen(f) == f \in {"DialogOpen", "NameEntered", "Submitted"}

\* a paper-dialog is open: the new-folder dialog or the delete confirmation
DialogIsOpen(f) == FolderDialogIsOpen(f) \/ f \in {"DeleteDialog", "DeleteSubmitted"}

\* the confirm control is enabled only for a name without forbidden characters
ConfirmEnabled(name) == name # <<>> /\ ~HasForbidden(name)

\* the application still has work of its own to finish
AppPending ==
    \/ flow \in {"Submitted", "DeleteSubmitted", "Deleting", "ViewMenuClosing"}
    \/ \E i \in 1 .. Len(uploads) : uploads[i].st = "uploading"

\* the k-th file of the upload list shows its success icon
FileSucceeded(k) == k <= Len(uploads) /\ uploads[k].st = "success"

\* text contains sub
Contains(text, sub) ==
    \E i \in 0 .. (Len(text) - Len(sub)) : SubSeq(text, i + 1, i + Len(sub)) = sub

\* the entries of the tree a treeText locator matches
TreeMatches(l) == {f \in folders : Contains(f, l.name)}

\* the element the locator describes exists and is visible
Visible(l) ==
    CASE l.id \in {"contentMediaLibraryButton", "contentHeader", "addButton",
                   "rootNode"} -> TRUE
      [] l.id = "treeText" -> TreeMatches(l) # {}
      [] l.id = "folderOption" -> flow = "MenuOpen"
      [] l = folderNameInput -> FolderDialogIsOpen(flow)
      [] l \in DialogControls -> DialogIsOpen(flow)
      [] l.id \in {"selectItems", "viewModeButton", "deleteButton"} -> TRUE
      [] l = uploadFilesButton -> flow = "MenuOpen"
      [] l = uploadSuccess -> \E k \in 1 .. Len(uploads) : FileSucceeded(k)
      [] l.id \in Range(SuccessIds) ->
            \E k \in 1 .. Len(SuccessIds) : l.id = SuccessIds[k] /\ FileSucceeded(k)
      [] l \in SelectOptions -> flow = "SelectMenu"
      [] l \in ViewOptions -> flow \in {"ViewMenu", "ViewMenuClosing"}
      [] l.id = "contentItem" -> l.name \in Range(items)
      [] l.id = "cardCheckbox" -> l.name \in Range(items) /\ hovered = l.name
      [] l = loadingSpinner -> flow = "Deleting"
      [] l.id = "folderCreated" -> l.name \in folders
      [] OTHER -> FALSE

\* the element is enabled
Enabled(l) ==
    CASE l = acceptButton -> flow \in {"NameEntered", "DeleteDialog"}
      [] l = deleteButton -> checked # {}
      [] OTHER -> TRUE

\* the element receives pointer events: an open dialog is modal, a dialog
\* that is closing takes no more input
ReceivesEvents(l) ==
    CASE l \in DialogControls -> flow \in {"DialogOpen", "NameEntered", "DeleteDialog"}
      [] l \in SelectOptions -> flow = "SelectMenu"
      [] l \in ViewOptions -> flow = "ViewMenu"
      [] OTHER -> flow \in {"Closed", "MenuOpen"}

\* the suffix the application gives the second folder of a name
AppDuplicateSuffix == <<"(", "1", ")">>

\* the tree after a folder of this name has been created
CreateEntry(fs, name) ==
    IF name \in fs THEN fs \cup {name \o AppDuplicateSuffix} ELSE fs \cup {name}

\* the page after a click on l: [flow, nameField]
AfterClick(l) ==
    CASE l = addButton ->
            [flow |-> IF flow = "Closed" THEN "MenuOpen" ELSE "Closed",
             nameField |-> nameField]
      [] l = folderOption -> [flow |-> "DialogOpen", nameField |-> <<>>]
      [] l = acceptButton ->
            [flow |-> IF flow = "DeleteDialog" THEN "DeleteSubmitted" ELSE "Submitted",
             nameField |-> nameField]
      [] l = uploadFilesButton -> [flow |-> "Closed", nameField |-> nameField]
      [] l = selectItems -> [flow |-> "SelectMenu", nameField |-> nameField]
      [] l \in SelectOptions -> [flow |-> "Closed", nameField |-> nameField]
      [] l = viewModeButton -> [flow |-> "ViewMenu", nameField |-> nameField]
      [] l \in ViewOptions -> [flow |-> "ViewMenuClosing", nameField |-> nameField]
      [] l = deleteButton -> [flow |-> "DeleteDialog", nameField |-> nameField]
      [] l = cancelButton -> [flow |-> "Closed", nameField |-> <<>>]
      [] l = contentMediaLibraryButton -> [flow |-> "Closed", nameField |-> <<>>]
      [] OTHER -> [flow |-> flow, nameField |-> nameField]

\* the page after the name input has been filled with value
AfterFill(value) ==
    [flow |-> IF ConfirmEnabled(value) THEN "NameEntered" ELSE "DialogOpen",
     nameField |-> value]

\* the application finishes a submitted creation: the dialog closes and the
\* folder appears in the tree
AppFinish ==
    /\ flow = "Submitted"
    /\ flow' = "Closed"
    /\ folders' = CreateEntry(folders, nameField)
    /\ nameField' = <<>>
    /\ UNCHANGED <<contentVars, poVars, notPage>>

\* the content area after a click on l
ContentAfterClick(l) ==
    [items |-> items,
     checked |->
        CASE l = selectAllCheckbox -> Range(items)
          [] l = selectNoneCheckbox -> {}
          [] l.id = "cardCheckbox" ->
                IF l.name \in checked THEN checked \ {l.name}
                                       ELSE checked \cup {l.name}
          [] OTHER -> checked,
     hovered |-> IF l.id = "cardCheckbox" THEN hovered ELSE <<>>,
     uploads |-> uploads,
     viewMode |-> IF l \in ViewOptions THEN ViewValue(l) ELSE viewMode]

\* the upload list after the files have been attached to the upload control
Attached(filePaths) ==
    [i \in 1 .. Len(filePaths) |-> [file |-> filePaths[i], st |-> "uploading"]]

\* one file of the upload list finishes: it becomes an item of the folder
AppUploadDone ==
    /\ \E i \in 1 .. Len(uploads) :
          /\ uploads[i].st = "uploading"
          /\ \A j \in 1 .. (i - 1) : uploads[j].st # "uploading"
          /\ \E ok \in BOOLEAN :
                /\ uploads' = [uploads EXCEPT ![i].st = IF ok THEN "success" ELSE "failed"]
                /\ items' = IF ok /\ uploads[i].file \notin Range(items)
                               THEN Append(items, uploads[i].file) ELSE items
    /\ UNCHANGED <<flow, nameField, folders, checked, hovered, viewMode, viewOptions,
                   poVars, notPage>>

\* the menu of view options closes after a choice; its options stay in the
\* page, hidden, or leave it
AppViewMenuClose ==
    /\ flow = "ViewMenuClosing"
    /\ flow' = "Closed"
    /\ viewOptions' \in {"attached", "absent"}
    /\ UNCHANGED <<nameField, folders, items, checked, hovered, uploads, viewMode,
                   poVars, notPage>>

\* the confirmed deletion starts: the dialog closes, the spinner shows
AppDeleteStart ==
    /\ flow = "DeleteSubmitted"
    /\ flow' = "Deleting"
    /\ UNCHANGED <<nameField, folders, contentVars, poVars, notPage>>

KeepItems(q) == SelectSeq(q, LAMBDA x : x \notin checked)

\* the deletion finishes: the selected items are gone, the spinner hides
AppDeleteDone ==
    /\ flow = "Deleting"
    /\ flow' = "Closed"
    /\ items' = KeepItems(items)
    /\ checked' = {}
    /\ hovered' = <<>>
    /\ UNCHANGED <<nameField, folders, uploads, viewMode, viewOptions, poVars, notPage>>

(***************************************************************************)
(* Driver operations. An operation of a page object is the sequence of     *)
(* driver operations it awaits one after the other.                        *)
(*   kind   waitFor | click | fill | hover | selectOption | goto           *)
(*          | expectTruthy | expectDisabled                                *)
(*   by     the BasePage method (or test step) that issues it              *)
(*   catch  the operation sits in a try whose catch swallows the error     *)
(*   fin    the operation belongs to the afterEach hook                    *)
(***************************************************************************)
NoLoc == Loc("none")

Op(kind, l, state, value, by) ==
    [kind |-> kind, loc |-> l, state |-> state, value |-> value, by |-> by,
     catch |-> FALSE, fin |-> FALSE]

\* locator.waitFor({ state })
WaitFor(l, state, by) == Op("waitFor", l, state, <<>>, by)

(***************************************************************************)
(* BasePage (BasePage.ts 28-102).                                          *)
(***************************************************************************)
clickNoWait(l) == <<Op("click", l, "", <<>>, "click")>>

click(l) == <<WaitFor(l, "visible", "click"), Op("click", l, "", <<>>, "click")>>

fill(l, value) ==
    <<WaitFor(l, "visible", "fill"), Op("fill", l, "", value, "fill")>>

waitForVisible(l) == <<WaitFor(l, "visible", "waitForVisible")>>

waitForHidden(l) == <<WaitFor(l, "hidden", "waitForHidden")>>

isVisibleRethrows(l) == <<WaitFor(l, "visible", "isVisible")>>

\* try { await locator.waitFor(visible, 5000); return true } catch { return false }
isVisible(l) == <<[WaitFor(l, "visible", "isVisible") EXCEPT !.catch = TRUE]>>

selectOption(l, value) ==
    <<WaitFor(l, "visible", "selectOption"),
      Op("selectOption", l, "", value, "selectOption")>>

hover(l) == <<WaitFor(l, "visible", "hover"), Op("hover", l, "", <<>>, "hover")>>

(***************************************************************************)
(* ContentPage (ContentPage.ts 137-160, 335-337).                          *)
(***************************************************************************)
goToContentModule == click(contentMediaLibraryButton) \o waitForVisible(contentHeader)

enterFolderNameDefault(folderName) ==
    click(addButton) \o click(folderOption) \o fill(folderNameInput, <<"a">>)

enterFolderName(folderName) ==
    click(addButton) \o click(folderOption) \o fill(folderNameInput, folderName)

createFolderCancels(folderName) ==
    enterFolderName(folderName) \o click(cancelButton) \o waitForHidden(confirmDialog)

createFolderNameLast(folderName) ==
    click(addButton) \o click(folderOption) \o click(acceptButton)
        \o fill(folderNameInput, folderName) \o waitForHidden(confirmDialog)

createFolder(folderName) ==
    enterFolderName(folderName) \o click(acceptButton) \o waitForHidden(confirmDialog)

DuplicateSuffixTwo == <<"(", "2", ")">>

\* folderName + '(1)'
DuplicateSuffix == <<"(", "1", ")">>

\* waitForVisible(tree.getByText(folderName + '(1)')); return its textContent
getNameFolderDuplicate(folderName) ==
    waitForVisible(treeText(folderName \o DuplicateSuffix))
        \o <<Op("textContent", treeText(folderName \o DuplicateSuffix), "", <<>>,
               "getNameFolderDuplicate")>>

navigateToRoot == click(rootNode)

folderCreatedExists(itemName) == isVisible(folderCreated(itemName))

(***************************************************************************)
(* ContentPage: uploads, selection, deletion, view modes                   *)
(* (ContentPage.ts 171-251, 277-300, 345-347, 402-431).                    *)
(***************************************************************************)
\* this.fileInput.setInputFiles(filePaths)
setInputFiles(filePaths, by) == <<Op("setInputFiles", fileInput, "", filePaths, by)>>

uploadSingleFile(filePath) ==
    click(addButton) \o click(uploadFilesButton)
        \o setInputFiles(<<filePath>>, "uploadSingleFile")
        \o waitForVisible(uploadSuccess)

uploadMultipleFiles(filePaths) ==
    click(addButton) \o click(uploadFilesButton)
        \o setInputFiles(filePaths, "uploadMultipleFiles")
        \o waitForVisible(fileSuccess(1))
        \o waitForVisible(fileSuccess(2))

uploadByDragAndDrop(filePaths) ==
    setInputFiles(filePaths, "uploadByDragAndDrop")
        \o waitForVisible(fileSuccess(1))
        \o waitForVisible(fileSuccess(2))

selectContentItemClickOnly(itemName) ==
    <<Op("click", cardCheckbox(itemName), "", <<>>, "selectContentItem")>>

\* await card.hover(); await checkbox.click();
selectContentItem(itemName) ==
    <<Op("hover", contentItem(itemName), "", <<>>, "selectContentItem"),
      Op("click", cardCheckbox(itemName), "", <<>>, "selectContentItem")>>

selectAllItems ==
    waitForVisible(selectItems) \o click(selectItems)
        \o waitForVisible(selectAllCheckbox) \o click(selectAllCheckbox)

selectNoneItems ==
    waitForVisible(selectItems) \o click(selectItems)
        \o waitForVisible(selectNoneCheckbox) \o click(selectNoneCheckbox)

deleteSelectedContentNoWait ==
    click(deleteButton) \o click(confirmDeleteButton)

deleteSelectedContent ==
    click(deleteButton) \o click(confirmDeleteButton)
        \o waitForHidden(confirmDialog) \o waitForHidden(loadingSpinner)

openViewModeMenu == click(viewModeButton)

switchToGridView == click(gridViewButton)

switchToListView == click(listViewButton)

switchToCardView == click(cardViewButton)

contentItemExists(itemName) == isVisible(contentItem(itemName))

areAllItemsCheckedAlwaysTrue ==
    <<Op("count", checkboxes, "", <<>>, "areAllItemsChecked"),
      Op("return", NoLoc, "true", <<>>, "areAllItemsCheckedEnd")>>

\* count === 0 -> false; the first unchecked nth(i) -> false; else true
areAllItemsChecked ==
    <<Op("count", checkboxes, "", <<>>, "areAllItemsChecked"),
      Op("return", NoLoc, "true", <<>>, "areAllItemsChecked")>>

getActiveViewModeReversed ==
    <<Op("getAttribute", cardViewButton, "grid", <<>>, "getActiveViewMode"),
      Op("getAttribute", listViewButton, "list", <<>>, "getActiveViewMode"),
      Op("getAttribute", gridViewButton, "card", <<>>, "getActiveViewMode"),
      Op("return", NoLoc, "unknown", <<>>, "getActiveViewMode")>>

\* for (const option of options)
\*     if (await option.locator.getAttribute('aria-selected') === 'true')
\*         return option.value;
\* return 'unknown';
getActiveViewMode ==
    <<Op("getAttribute", gridViewButton, "grid", <<>>, "getActiveViewMode"),
      Op("getAttribute", listViewButton, "list", <<>>, "getActiveViewMode"),
      Op("getAttribute", cardViewButton, "card", <<>>, "getActiveViewMode"),
      Op("return", NoLoc, "unknown", <<>>, "getActiveViewMode")>>

(***************************************************************************)
(* The folder scenarios (content-management.spec.ts: part_001 228-281).    *)
(***************************************************************************)
\* beforeEach: page.goto('/'), goToContentModule()
beforeEach == <<Op("goto", NoLoc, "", <<>>, "test")>> \o goToContentModule

\* afterEach: try { if (await folderCreatedExists(testFolderName)) {} } catch {}
afterEach(testFolderName) ==
    [i \in 1 .. Len(folderCreatedExists(testFolderName)) |->
        [folderCreatedExists(testFolderName)[i] EXCEPT !.fin = TRUE]]

\* expect(value).toBeTruthy() on the value just returned
expectTruthy == <<Op("expectTruthy", NoLoc, "", <<>>, "test")>>

\* expect(locator).toBeDisabled() without await: the assertion is started,
\* the test body goes on (here: ends) without its result
expectDisabledNotAwaited(l) == <<Op("expectDisabled", l, "", <<>>, "test")>>

TC_01_01(testFolderName) ==
    beforeEach \o createFolder(testFolderName)
        \o folderCreatedExists(testFolderName) \o expectTruthy
        \o afterEach(testFolderName)

\* expect(warningMessage).toContain(text) on the text just read
expectContain(text) == <<Op("expectContain", NoLoc, "", text, "test")>>

TC_01_02(testFolderName, testFolderNameDuplicate) ==
    beforeEach \o createFolder(testFolderNameDuplicate)
        \o folderCreatedExists(testFolderNameDuplicate) \o expectTruthy
        \o navigateToRoot
        \o createFolder(testFolderNameDuplicate)
        \o getNameFolderDuplicate(testFolderNameDuplicate)
        \o expectContain(testFolderNameDuplicate \o DuplicateSuffix)
        \o afterEach(testFolderName)

TC_01_03(testFolderName, specialFolderName) ==
    beforeEach \o enterFolderName(specialFolderName)
        \o expectDisabledNotAwaited(acceptButton)
        \o afterEach(testFolderName)

\* the view modes and the switch of each
Modes == {"grid", "list", "card"}

switchTo(mode) ==
    CASE mode = "grid" -> switchToGridView
      [] mode = "list" -> switchToListView
      [] mode = "card" -> switchToCardView

\* expect(await contentPage.getActiveViewMode()).toBe(mode)
expectToBe(mode) == <<Op("expectToBe", NoLoc, mode, <<>>, "test")>>

\* the sequences of switches a scenario makes: 1 .. MaxSwitches modes
RECURSIVE ModeLists(_)
ModeLists(n) ==
    IF n = 0 THEN {<<>>}
    ELSE LET shorter == ModeLists(n - 1)
         IN  shorter \cup {Append(ml, m) : ml \in {x \in shorter : Len(x) = n - 1},
                                           m \in Modes}

\* TC-03-04: for each mode in turn (the test: grid, list, card) open the menu,
\* switch, and expect getActiveViewMode() to be that mode
RECURSIVE TC_03_04(_)
TC_03_04(modes) ==
    IF modes = <<>> THEN <<>>
    ELSE openViewModeMenu \o switchTo(Head(modes)) \o getActiveViewMode
            \o expectToBe(Head(modes)) \o TC_03_04(Tail(modes))

(***************************************************************************)
(* The driver: what one driver operation meets on the page.                *)
(***************************************************************************)
\* the state the operation waits for (each action waits until its element is
\* actionable) has been reached
Ready(s) ==
    CASE s.kind = "waitFor" ->
            IF s.state = "visible" THEN Visible(s.loc) ELSE ~Visible(s.loc)
      [] s.kind = "textContent" -> Visible(s.loc)
      [] s.kind = "getAttribute" ->
            flow \in {"ViewMenu", "ViewMenuClosing"} \/ viewOptions = "attached"
      [] s.kind = "isChecked" -> NthIndex(s.loc) < Len(items)
      [] s.kind \in {"click", "hover", "fill"} ->
            Visible(s.loc) /\ Enabled(s.loc) /\ ReceivesEvents(s.loc)
      [] s.kind = "selectOption" -> Visible(s.loc)
      [] s.kind = "goto" -> ~AppPending
      [] OTHER -> TRUE

\* how the operation ends: "ok", or the error it throws. A wait or an action
\* whose state is not reached ends in a timeout; fill wants an input and
\* selectOption a <select> element, which this page does not have.
Outcome(s) ==
    CASE ~Ready(s) -> "TimeoutError"
      [] s.loc.id = "treeText" /\ Cardinality(TreeMatches(s.loc)) > 1 -> "Error"
      [] s.loc = uploadSuccess
            /\ Cardinality({k \in 1 .. Len(uploads) : FileSucceeded(k)}) > 1 -> "Error"
      [] s.kind = "expectContain" /\ ~Contains(Last(log).value, s.value) -> "AssertionError"
      [] s.kind = "fill" /\ s.loc # folderNameInput -> "Error"
      [] s.kind = "selectOption" -> "Error"
      [] s.kind = "expectTruthy" /\ ret # "true" -> "AssertionError"
      [] s.kind = "expectToBe" /\ ret # s.state -> "AssertionError"
      [] OTHER -> "ok"

\* the page after the operation: [flow, nameField]
PageAfter(s) ==
    IF Outcome(s) # "ok" THEN [flow |-> flow, nameField |-> nameField]
    ELSE CASE s.kind = "click" -> AfterClick(s.loc)
           [] s.kind = "fill" -> AfterFill(s.value)
           [] s.kind = "goto" -> [flow |-> "Closed", nameField |-> <<>>]
           [] OTHER -> [flow |-> flow, nameField |-> nameField]

\* the content area after the operation
ContentNow ==
    [items |-> items, checked |-> checked, hovered |-> hovered, uploads |-> uploads,
     viewMode |-> viewMode]

ContentAfter(s) ==
    IF Outcome(s) # "ok" THEN ContentNow
    ELSE CASE s.kind = "click" -> ContentAfterClick(s.loc)
           [] s.kind = "hover" ->
                 [ContentNow EXCEPT
                     !.hovered = IF s.loc.id = "contentItem" THEN s.loc.name ELSE <<>>]
           [] s.kind = "setInputFiles" -> [ContentNow EXCEPT !.uploads = Attached(s.value)]
           [] OTHER -> ContentNow

\* the operation makes its method return at once (a return statement, or the
\* branch of an if that returns)
Returns(s) ==
    CASE s.kind = "return" -> TRUE
      [] s.kind = "getAttribute" -> viewMode = ViewValue(s.loc)
      [] s.kind = "count" -> Len(items) = 0
      [] s.kind = "isChecked" -> items[NthIndex(s.loc) + 1] \notin checked
      [] OTHER -> FALSE

\* the value the method then returns
ReturnValue(s) == IF s.kind \in {"return", "getAttribute"} THEN s.state ELSE "false"

\* for (let i = 0; i < count; i++) checkboxes.nth(i).isChecked()
Expand(s) ==
    IF s.kind = "count"
        THEN [i \in 1 .. Len(items) |-> Op("isChecked", nth(i - 1), "", <<>>, s.by)]
        ELSE <<>>

\* what is left of the script once the method of this name has returned
AfterMethod(q, by) ==
    LET others == {j \in 1 .. Len(q) : q[j].by # by}
    IN  IF others = {} THEN <<>>
        ELSE SubSeq(q, CHOOSE j \in others : \A k \in others : j <= k, Len(q))

IsTest(c) == c.op \in {"TC-01-01", "TC-01-02", "TC-01-03", "TC-03-04"}

\* the value the operation carries: the text it read, or the value it was given
Observed(s, out) ==
    IF s.kind = "textContent" /\ out = "ok"
        THEN (CHOOSE f \in TreeMatches(s.loc) : TRUE)
        ELSE s.value

Entry(s, out, flowAfter) ==
    [kind |-> s.kind, loc |-> s.loc, state |-> s.state, value |-> Observed(s, out),
     by |-> s.by, out |-> out, flow |-> flowAfter]

\* the operation under way issues its next driver operation and gets the
\* result; an operation whose state is not reached yet waits as long as the
\* application is still working
DriverStep ==
    /\ status = "running"
    /\ script # <<>>
    /\ LET s == Head(script)
           out == Outcome(s)
           after == PageAfter(s)
           content == ContentAfter(s)
           swallowed == out # "ok" /\ s.catch
           raised == out # "ok" /\ ~s.catch
           returns == out = "ok" /\ Returns(s)
           IsFin(x) == x.fin
           rest == IF raised THEN SelectSeq(Tail(script), IsFin)
                   ELSE IF returns THEN AfterMethod(Tail(script), s.by)
                   ELSE IF out = "ok" THEN Expand(s) \o Tail(script)
                   ELSE Tail(script)
           error == IF raised THEN out ELSE err
           done == rest = <<>>
           float == IF s.kind = "expectDisabled" /\ out = "ok" THEN "pending" ELSE floating
       IN  /\ Ready(s) \/ ~AppPending
           /\ log' = Append(log, Entry(s, out, after.flow))
           /\ flow' = after.flow
           /\ nameField' = after.nameField
           /\ script' = rest
           /\ err' = error
           /\ items' = content.items
           /\ checked' = content.checked
           /\ hovered' = content.hovered
           /\ uploads' = content.uploads
           /\ viewMode' = content.viewMode
           /\ ret' = IF s.catch THEN (IF out = "ok" THEN "true" ELSE "false")
                     ELSE IF returns THEN ReturnValue(s)
                     ELSE ret
           /\ status' = IF ~done THEN "running"
                        ELSE IF error = "none" THEN "returned" ELSE "threw"
           /\ floating' = IF done /\ float = "pending" THEN "aborted" ELSE float
           /\ testStatus' = IF done /\ IsTest(call)
                               THEN (IF error = "none" /\ float # "failed"
                                        THEN "passed" ELSE "failed")
                               ELSE testStatus
    /\ UNCHANGED <<folders, viewOptions, call, folders0, page0, notPage>>

\* the assertion that was not awaited gets its answer while the test is
\* still running (its afterEach hook is): a failure then fails the test
FloatingResolve ==
    /\ floating = "pending"
    /\ status = "running"
    /\ LET disabled == Visible(acceptButton) /\ ~Enabled(acceptButton)
           s == Op("expectDisabled", acceptButton, "", <<>>, "floating")
       IN  /\ floating' = IF disabled THEN "passed" ELSE "failed"
           /\ log' = Append(log, Entry(s, IF disabled THEN "ok" ELSE "AssertionError", flow))
    /\ UNCHANGED <<appVars, call, folders0, page0, script, status, ret, err,
                   testStatus, notPage>>

(***************************************************************************)
(* The calls a test makes on the page object, one at a time.               *)
(***************************************************************************)
NoCall == [op |-> "none", loc |-> NoLoc, name |-> <<>>, name2 |-> <<>>]

AnyValue == <<"a">>

Start(op, l, name, name2, ops) ==
    /\ status # "running"
    /\ call' = [op |-> op, loc |-> l, name |-> name, name2 |-> name2]
    /\ folders0' = folders
    /\ page0' = [items |-> items, checked |-> checked]
    /\ script' = ops
    /\ log' = <<>>
    /\ status' = "running"
    /\ ret' = "void"
    /\ err' = "none"
    /\ floating' = "none"
    /\ testStatus' = "none"
    /\ UNCHANGED <<appVars, notPage>>

CallClick == \E l \in StaticLocators : Start("click", l, <<>>, <<>>, click(l))

CallFill ==
    \E l \in StaticLocators :
        \E v \in (IF l = folderNameInput THEN Names ELSE {AnyValue}) :
            Start("fill", l, v, <<>>, fill(l, v))

CallHover == \E l \in StaticLocators : Start("hover", l, <<>>, <<>>, hover(l))

CallSelectOption ==
    \E l \in StaticLocators :
        Start("selectOption", l, AnyValue, <<>>, selectOption(l, AnyValue))

CallIsVisible == \E l \in StaticLocators : Start("isVisible", l, <<>>, <<>>, isVisible(l))

CallWaitForVisible ==
    \E l \in StaticLocators : Start("waitForVisible", l, <<>>, <<>>, waitForVisible(l))

CallWaitForHidden ==
    \E l \in StaticLocators : Start("waitForHidden", l, <<>>, <<>>, waitForHidden(l))

CallEnterFolderName ==
    \E n \in Names : Start("enterFolderName", NoLoc, n, <<>>, enterFolderName(n))

CallCreateFolder ==
    \E n \in Names : Start("createFolder", NoLoc, n, <<>>, createFolder(n))

CallNavigateToRoot == Start("navigateToRoot", rootNode, <<>>, <<>>, navigateToRoot)

CallGetNameFolderDuplicate ==
    \E n \in GeneratedNames :
        Start("getNameFolderDuplicate", treeText(n \o DuplicateSuffix), n, <<>>,
              getNameFolderDuplicate(n))

CallFolderCreatedExists ==
    \E n \in Names :
        Start("folderCreatedExists", folderCreated(n), n, <<>>, folderCreatedExists(n))

RunTC_01_01 ==
    \E n \in GeneratedNames : Start("TC-01-01", NoLoc, n, <<>>, TC_01_01(n))

RunTC_01_02 ==
    \E n \in GeneratedNames, prefix \in GeneratedNames :
        Start("TC-01-02", NoLoc, n, prefix, TC_01_02(n, prefix))

RunTC_01_03 ==
    \E n \in GeneratedNames, special \in Names :
        Start("TC-01-03", NoLoc, n, special, TC_01_03(n, special))

CallUploadSingleFile ==
    \E f \in Files :
        /\ f \notin Range(items)
        /\ Start("uploadSingleFile", NoLoc, f, <<>>, uploadSingleFile(f))

CallUploadMultipleFiles ==
    \E fl \in FilePathLists :
        /\ items = <<>>
        /\ Start("uploadMultipleFiles", NoLoc, fl, <<>>, uploadMultipleFiles(fl))

CallUploadByDragAndDrop ==
    \E fl \in FilePathLists :
        /\ items = <<>>
        /\ Start("uploadByDragAndDrop", NoLoc, fl, <<>>, uploadByDragAndDrop(fl))

CallSelectContentItem ==
    \E f \in Files :
        Start("selectContentItem", contentItem(f), f, <<>>, selectContentItem(f))

CallSelectAllItems == Start("selectAllItems", NoLoc, <<>>, <<>>, selectAllItems)

CallSelectNoneItems == Start("selectNoneItems", NoLoc, <<>>, <<>>, selectNoneItems)

CallDeleteSelectedContent ==
    Start("deleteSelectedContent", NoLoc, <<>>, <<>>, deleteSelectedContent)

CallContentItemExists ==
    \E f \in Files :
        Start("contentItemExists", contentItem(f), f, <<>>, contentItemExists(f))

CallAreAllItemsChecked ==
    Start("areAllItemsChecked", NoLoc, <<>>, <<>>, areAllItemsChecked)

CallOpenViewModeMenu == Start("openViewModeMenu", NoLoc, <<>>, <<>>, openViewModeMenu)

CallSwitchToView ==
    \E m \in Modes : Start("switchToView", NoLoc, <<>>, <<m>>, switchTo(m))

CallGetActiveViewMode ==
    Start("getActiveViewMode", NoLoc, <<>>, <<>>, getActiveViewMode)

RunTC_03_04 ==
    \E ml \in ModeLists(MaxSwitches) \ {<<>>} :
        Start("TC-03-04", NoLoc, <<>>, ml, TC_03_04(ml))

(***************************************************************************)
(* globalSetup (ContentPage.ts 446-507): the bootstrap of the session.     *)
(***************************************************************************)
\* const required = ['BASE_URL', 'USER_EMAIL', 'USER_PASSWORD']
required == <<"BASE_URL", "USER_EMAIL", "USER_PASSWORD">>

EnvValues == {"unset", "empty", "set"}

\* dotenv.config(): a variable of the .env file is taken unless process.env
\* has the key already
Loaded(env, file) == [k \in Range(required) |-> IF env[k] # "unset" THEN env[k] ELSE file[k]]

\* required.filter(key => !process.env[key])
Missing(env) == SelectSeq(required, LAMBDA k : env[k] \in {"unset", "empty"})

globalSetupValidatesLate ==
    <<"mkdir", "launch", "newPage", "validate", "goto", "fillUser", "fillPassword",
      "clickLogin", "waitForURL", "storageState">>

globalSetupSnapshotFirst ==
    <<"validate", "mkdir", "launch", "newPage", "goto", "fillUser", "fillPassword",
      "clickLogin", "storageState", "waitForURL">>

\* the steps of globalSetup, in order
globalSetupSteps ==
    <<"validate", "mkdir", "launch", "newPage", "goto", "fillUser", "fillPassword",
      "clickLogin", "waitForURL", "storageState">>

\* the steps inside try { ... } catch (error) { console.error; throw error }
\* finally { await browser.close() }
TrySteps == {"goto", "fillUser", "fillPassword", "clickLogin", "waitForURL", "storageState"}

LogEntry(step, ok) == [step |-> step, ok |-> ok]

\* a run of globalSetup begins, in some environment
GsCall ==
    /\ gsStatus # "running"
    /\ procEnv' \in [Range(required) -> EnvValues]
    /\ dotEnv' \in [Range(required) -> EnvValues]
    /\ gsStatus' = "running"
    /\ gsPc' = 1
    /\ gsLog' = <<>>
    /\ gsMissing' = <<>>
    /\ gsUrl' = "blank"
    /\ UNCHANGED notGs

\* the outcomes the step can have
StepOutcomes(step) ==
    CASE step = "validate" -> {Missing(Loaded(procEnv, dotEnv)) = <<>>}
      [] step = "waitForURL" -> {gsUrl = "dashboard"}
      [] OTHER -> BOOLEAN

\* the next step of globalSetup is made
GsStep ==
    /\ gsStatus = "running"
    /\ LET step == globalSetupSteps[gsPc]
           last == gsPc = Len(globalSetupSteps)
       IN  \E ok \in StepOutcomes(step) :
             /\ gsLog' = gsLog \o <<LogEntry(step, ok)>>
                    \o (IF ~ok /\ step \in TrySteps
                            THEN <<LogEntry("console.error", TRUE), LogEntry("close", TRUE)>>
                            ELSE <<>>)
                    \o (IF ok /\ last THEN <<LogEntry("close", TRUE)>> ELSE <<>>)
                    \o (IF ~ok THEN <<LogEntry("throw", TRUE)>> ELSE <<>>)
             /\ gsStatus' = IF ~ok THEN "failed" ELSE IF last THEN "done" ELSE "running"
             /\ gsPc' = IF ok /\ ~last THEN gsPc + 1 ELSE gsPc
             /\ gsMissing' = IF step = "validate" /\ ~ok
                                THEN Missing(Loaded(procEnv, dotEnv)) ELSE gsMissing
             /\ gsUrl' \in CASE step = "goto" /\ ok -> {"login"}
                            [] step = "clickLogin" /\ ok -> {"login", "dashboard"}
                            [] OTHER -> {gsUrl}
    /\ UNCHANGED <<procEnv, dotEnv, notGs>>

(***************************************************************************)
(* One run of the suite (the configuration, helpers.ts 430-508):           *)
(* globalSetup, then the tests, each in a browser context of its own and   *)
(* in parallel, then globalTeardown.                                       *)
(***************************************************************************)
\* the tests of the run: one of login.spec.ts, two of the content suite
SuiteTests == {"TC-LOGIN-01", "TC-01-01", "TC-03-01"}

storageStateConfigOnly(t) == "file"

\* use: { storageState: 'auth/storageState.json' } of the configuration,
\* replaced by test.use({ storageState: { cookies: [], origins: [] } }) in
\* the describe of login.spec.ts
storageStateOption(t) == IF t = "TC-LOGIN-01" THEN "empty" ELSE "file"

\* what a test does with its context, in order: the context is made, the
\* hooks and the body run, the context is closed
SessionOps(t) ==
    IF t = "TC-LOGIN-01"
        THEN <<"newContext", "goToLoginPage", "login", "toHaveURL", "closeContext">>
        ELSE <<"newContext", "goto", "goToContentModule", "body", "closeContext">>

\* page.context().storageState({ path: 'auth/storageState.json' }) of
\* globalSetup has been made
GsWroteSnapshot == \E i \in 1 .. Len(gsLog) : gsLog[i] = LogEntry("storageState", TRUE)

\* who wrote auth/storageState.json, in order
SnapshotWriters ==
    (IF GsWroteSnapshot THEN <<"globalSetup">> ELSE <<>>)
        \o [i \in 1 .. Len(testWrites) |-> testWrites[i].by]

\* the content of auth/storageState.json
SnapshotFile ==
    IF testWrites # <<>> THEN Last(testWrites).state
    ELSE IF GsWroteSnapshot THEN "session" ELSE "absent"

NoContext == [pc |-> 1, loaded |-> "none", state |-> "none"]

\* globalSetup: require.resolve('./src/config/global-setup.ts') runs first
SuiteSetupCall == suitePc = "setup" /\ gsStatus = "idle" /\ GsCall

SuiteSetupStep == suitePc = "setup" /\ GsStep

\* the tests run once globalSetup has returned; a globalSetup that threw
\* ends the run
SuiteSetupEnd ==
    /\ suitePc = "setup"
    /\ gsStatus \in {"done", "failed"}
    /\ suitePc' = IF gsStatus = "done" THEN "tests" ELSE "done"
    /\ UNCHANGED <<ctx, testWrites, gsVars, notSuite>>

\* the next step of one test; a step that fails ends the test, and its
\* context is closed
TestStep ==
    /\ suitePc = "tests"
    /\ \E t \in SuiteTests :
         /\ ctx[t].pc <= Len(SessionOps(t))
         /\ LET op == SessionOps(t)[ctx[t].pc]
                c == ctx[t]
            IN  \E ok \in (IF op \in {"newContext", "closeContext"} THEN {TRUE} ELSE BOOLEAN) :
                  /\ ctx' = [ctx EXCEPT ![t] =
                        [pc |-> IF ok THEN c.pc + 1 ELSE Len(SessionOps(t)),
                         loaded |-> IF op # "newContext" THEN c.loaded
                                    ELSE IF storageStateOption(t) = "file"
                                        THEN SnapshotFile ELSE "empty",
                         state |-> CASE op = "newContext" ->
                                          IF storageStateOption(t) = "file"
                                              THEN SnapshotFile ELSE "empty"
                                     [] op = "login" /\ ok -> "session"
                                     [] op = "closeContext" -> "closed"
                                     [] OTHER -> c.state]]
                  /\ testWrites' = IF op = "storageState" /\ ok
                                       THEN Append(testWrites, [by |-> t, state |-> c.state])
                                       ELSE testWrites
    /\ UNCHANGED <<suitePc, gsVars, notSuite>>

\* globalTeardown (ContentPage.ts 519-527) logs, and nothing else
SuiteTeardown ==
    /\ suitePc = "tests"
    /\ \A t \in SuiteTests : ctx[t].pc > Len(SessionOps(t))
    /\ suitePc' = "done"
    /\ UNCHANGED <<ctx, testWrites, gsVars, notSuite>>

(***************************************************************************)
(* The environment configuration module (part_001 1-207), as imported.     *)
(***************************************************************************)
\* the statements the import evaluates, in order: dotenv.config() (11), the
\* properties of the exported config object (126-142), then the validation
\* on import (147-153)
envModuleSteps ==
    <<"baseUrl", "userEmail", "userPassword", "defaults", "validateEnvironment">>

\* key.replace(/([A-Z])/g, '_$1').toUpperCase()
envKey(key) ==
    CASE key = "baseUrl" -> "BASE_URL"
      [] key = "userEmail" -> "USER_EMAIL"
      [] key = "userPassword" -> "USER_PASSWORD"

\* getConfigValue(key): process.env[envKey] || defaultValue || defaultConfig[key]
\* is empty for a key with no default, and the function throws
getConfigValueThrows(env, key) == env[envKey(key)] \in {"unset", "empty"}

EnvEntry(step, names) == [step |-> step, names |-> names]

\* the module is imported, in some environment
EnvImport ==
    /\ envStatus # "loading"
    /\ procEnv' \in [Range(required) -> EnvValues]
    /\ dotEnv' \in [Range(required) -> EnvValues]
    /\ envStatus' = "loading"
    /\ envPc' = 1
    /\ envLog' = <<>>
    /\ UNCHANGED <<gsStatus, gsPc, gsLog, gsMissing, gsUrl, notEnv>>

\* the next statement of the module
EnvStep ==
    /\ envStatus = "loading"
    /\ LET step == envModuleSteps[envPc]
           env == Loaded(procEnv, dotEnv)
           last == envPc = Len(envModuleSteps)
       IN  \/ /\ step \in {"baseUrl", "userEmail", "userPassword"}
              /\ IF getConfigValueThrows(env, step)
                    THEN /\ envLog' = Append(envLog, EnvEntry("throw", <<envKey(step)>>))
                         /\ envStatus' = "threw"
                         /\ envPc' = envPc
                    ELSE /\ envLog' = Append(envLog, EnvEntry(step, <<>>))
                         /\ envStatus' = "loading"
                         /\ envPc' = envPc + 1
           \* the other properties have defaults; a numeric one whose
           \* variable is not a number throws (100-102)
           \/ /\ step = "defaults"
              /\ \E ok \in BOOLEAN :
                   /\ envLog' = Append(envLog, EnvEntry(IF ok THEN step ELSE "throw", <<>>))
                   /\ envStatus' = IF ok THEN "loading" ELSE "threw"
                   /\ envPc' = IF ok THEN envPc + 1 ELSE envPc
           \/ /\ step = "validateEnvironment"
              /\ IF Missing(env) # <<>>
                    THEN /\ envLog' = envLog \o <<EnvEntry("console.error", Missing(env)),
                                                  EnvEntry("process.exit(1)", <<>>)>>
                         /\ envStatus' = "exited"
                    ELSE /\ envLog' = Append(envLog, EnvEntry("export", <<>>))
                         /\ envStatus' = "loaded"
              /\ envPc' = envPc
    /\ UNCHANGED <<gsVars, notEnv>>

(***************************************************************************)
(* TestDataHelper.loadTestData (helpers.ts 360-367) and the ContentData    *)
(* schema (helpers.ts 397-420).                                            *)
(***************************************************************************)
\* the properties of ContentData
ContentDataFields ==
    {"folderNames", "urls", "search", "performance", "errorPatterns", "viewModes"}

\* a file: whether it can be read, whether its text is JSON, the properties
\* of ContentData its value has with the right shape, and whether the two
\* timeouts of performance are numbers
DataFiles ==
    [readable : BOOLEAN, json : BOOLEAN, fields : SUBSET ContentDataFields,
     numbers : BOOLEAN]

\* the value is a ContentData
ConformsToContentData(f) == f.fields = ContentDataFields /\ f.numbers

\* try { fs.readFileSync; return JSON.parse(data) } catch { throw new Error(...) }
loadTestData(f) == IF f.readable /\ f.json THEN "returned" ELSE "threw"

DataCall ==
    /\ dataStatus # "reading"
    /\ dataFile' \in DataFiles
    /\ dataStatus' = "reading"
    /\ UNCHANGED notData

DataReturn ==
    /\ dataStatus = "reading"
    /\ dataStatus' = loadTestData(dataFile)
    /\ UNCHANGED <<dataFile, notData>>

(***************************************************************************)
(* LoginPage (BasePage.ts 165-288) on one page, and the fixture            *)
(* authenticatedContext (login.spec.ts 76-102).                            *)
(***************************************************************************)
\* URLs, without the origin
UrlBlank == <<"a", "b", "o", "u", "t", ":", "b", "l", "a", "n", "k">>
UrlRoot == <<"/">>
UrlLogin == <<"/", "#", "!", "/", "l", "o", "g", "i", "n">>
UrlAuth == <<"/", "a", "u", "t", "h">>
UrlDashboard == <<"/", "#", "!", "/", "d", "a", "s", "h", "b", "o", "a", "r", "d">>

\* where the application may show its login form after goto('/'): at the
\* root itself, or at an address it redirects to
LoginPageUrls == {UrlRoot, UrlLogin, UrlAuth}

\* the login form is on the page
LoginFormVisible == auUrl \in LoginPageUrls /\ auSession # "accepted"

\* !currentUrl.includes('login') && !currentUrl.includes('auth')
isNotLoginPage(url) ==
    /\ ~Contains(url, <<"l", "o", "g", "i", "n">>)
    /\ ~Contains(url, <<"a", "u", "t", "h">>)

\* LoginPage.goToLoginPage: this.navigate('/')
goToLoginPage == <<"goto">>

\* LoginPage.login: the statements of its try block
login ==
    <<"waitForVisible(loginForm)", "fill(usernameInput)", "fill(passwordInput)",
      "click(loginButton)", "waitForLoadState(load)",
      "waitForLoadState(domcontentloaded)">>

loginRethrownWrapped(error) == "Error"

\* catch (error) { console.error(...); throw error }
loginRethrown(error) == error

\* LoginPage.loginWithEnvCredentials
loginWithEnvCredentials == login

\* LoginPage.isLoginSuccessful
isLoginSuccessful == <<"url", "isVisible(dashboard)", "return">>

\* the fixture authenticatedContext
authenticatedContext ==
    <<"newContext", "newPage">> \o goToLoginPage \o loginWithEnvCredentials
        \o <<"url", "isVisible(dashboard)", "check", "use", "close">>

AuScripts ==
    [goToLoginPage |-> goToLoginPage, login |-> login,
     isLoginSuccessful |-> isLoginSuccessful,
     authenticatedContext |-> authenticatedContext]

\* an operation of LoginPage, or the fixture, begins
AuCall ==
    /\ auStatus # "running"
    /\ \E op \in DOMAIN AuScripts :
         /\ auCall' = op
         /\ auScript' = AuScripts[op]
    /\ auLog' = <<>>
    /\ auStatus' = "running"
    /\ auErr' = "none"
    /\ auRet' = "void"
    /\ UNCHANGED <<auUrl, auSession, auContext, notAu>>

\* how the step can end: "ok", or the error it throws
AuOutcomes(step) ==
    CASE step \in {"url", "isVisible(dashboard)", "return", "use", "close"} -> {"ok"}
      [] step = "check" -> {IF auRet = "true" THEN "ok" ELSE "LoginFailed"}
      [] step \in {"newContext", "newPage", "goto"} -> {"ok", "Error"}
      [] step \in {"waitForLoadState(load)", "waitForLoadState(domcontentloaded)"} ->
            {"ok", "TimeoutError"}
      [] OTHER -> IF LoginFormVisible THEN {"ok", "TimeoutError"} ELSE {"TimeoutError"}

AuEntry(step, out) == [step |-> step, out |-> out]

\* the next step of the operation under way
AuStep ==
    /\ auStatus = "running"
    /\ auScript # <<>>
    /\ LET step == Head(auScript)
       IN  \E out \in AuOutcomes(step) :
             LET ok == out = "ok"
                 inTry == step \in Range(login)
             IN  /\ auLog' = auLog \o <<AuEntry(step, out)>>
                        \o (IF ~ok /\ inTry THEN <<AuEntry("console.error", out)>> ELSE <<>>)
                 /\ auScript' = IF ok THEN Tail(auScript) ELSE <<>>
                 /\ auStatus' = IF ~ok THEN "threw"
                                ELSE IF Tail(auScript) = <<>> THEN "returned" ELSE "running"
                 /\ auErr' = IF ok THEN auErr
                             ELSE IF inTry THEN loginRethrown(out) ELSE out
                 /\ auContext' = CASE step = "newContext" /\ ok -> "open"
                                   [] step = "close" -> "closed"
                                   [] OTHER -> auContext
                 /\ \E answer \in {"accepted", "rejected"}, at \in LoginPageUrls,
                       hasDashboardElements \in BOOLEAN :
                      /\ hasDashboardElements => auUrl = UrlDashboard
                      /\ auSession' = CASE step = "newContext" /\ ok -> "none"
                                        [] step = "click(loginButton)" /\ ok -> answer
                                        [] OTHER -> auSession
                      /\ auUrl' = CASE step = "newContext" /\ ok -> UrlBlank
                                    [] step = "goto" /\ ok ->
                                          IF auSession = "accepted" THEN UrlDashboard ELSE at
                                    [] step = "click(loginButton)" /\ ok /\ answer = "accepted" ->
                                          UrlDashboard
                                    [] OTHER -> auUrl
                      /\ auRet' = CASE step = "url" ->
                                          IF isNotLoginPage(auUrl) THEN "true" ELSE "false"
                                    [] step = "isVisible(dashboard)" ->
                                          IF auRet = "true" \/ hasDashboardElements
                                              THEN "true" ELSE "false"
                                    [] OTHER -> auRet
    /\ UNCHANGED <<auCall, notAu>>

(***************************************************************************)
(* ContentPage.downloadSelectedContent (ContentPage.ts 236-241), and the   *)
(* browser, which emits 'download' some time after the click.              *)
(***************************************************************************)
DlCallsMade == Cardinality({i \in 1 .. Len(dlLog) : dlLog[i] = "call"})

\* downloadSelectedContent is called
DlCall ==
    /\ dlPc \in {"idle", "returned", "threw"}
    /\ DlCallsMade < MaxDownloadCalls
    /\ dlPc' = "click"
    /\ dlStarted' = FALSE
    /\ dlListener' = FALSE
    /\ dlResolved' = FALSE
    /\ dlLog' = Append(dlLog, "call")
    /\ UNCHANGED <<dlPending, notDl>>

\* await this.click(this.downloadButton): the button is clicked, and the
\* application starts a download or not; or the click times out
DlClick ==
    /\ dlPc = "click"
    /\ \E out \in {"download", "nothing", "TimeoutError"} :
         /\ dlPc' = IF out = "TimeoutError" THEN "threw" ELSE "waitForEvent"
         /\ dlStarted' = (out = "download")
         /\ dlPending' = (dlPending \/ out = "download")
         /\ dlLog' = dlLog \o <<"click">>
                \o (IF out = "TimeoutError" THEN <<"throw">> ELSE <<>>)
    /\ UNCHANGED <<dlListener, dlResolved, notDl>>

\* const downloadPromise = this.page.waitForEvent('download')
DlWaitForEvent ==
    /\ dlPc = "waitForEvent"
    /\ dlListener' = TRUE
    /\ dlPc' = "await"
    /\ dlLog' = Append(dlLog, "waitForEvent")
    /\ UNCHANGED <<dlStarted, dlPending, dlResolved, notDl>>

\* the browser emits 'download': the page hands the event to the listener
\* it has at that moment, and to nobody if it has none
DlEmit ==
    /\ dlPending
    /\ dlPending' = FALSE
    /\ dlResolved' = (dlResolved \/ dlListener)
    /\ dlListener' = FALSE
    /\ dlLog' = Append(dlLog, IF dlListener THEN "download" ELSE "download lost")
    /\ UNCHANGED <<dlPc, dlStarted, notDl>>

\* await downloadPromise: returns with the event, or times out when no
\* event is to come
DlAwait ==
    /\ dlPc = "await"
    /\ dlResolved \/ ~dlPending
    /\ dlPc' = IF dlResolved THEN "returned" ELSE "threw"
    /\ dlListener' = FALSE
    /\ dlLog' = Append(dlLog, IF dlResolved THEN "return" ELSE "throw")
    /\ UNCHANGED <<dlStarted, dlPending, dlResolved, notDl>>

(***************************************************************************)
(* The locator fields of ContentPage and its constructor                   *)
(* (ContentPage.ts 24-132), and isItemChecked (394-396).                   *)
(***************************************************************************)
\* the fields the class declares, in order
declaredFields ==
    <<"contentMediaLibraryButton", "contentHeader", "breadcrumb", "addButton",
      "folderOption", "folderNameInput", "acceptButton", "cancelButton",
      "folderCreated", "uploadFilesButton", "fileInput", "dropZone",
      "uploadProgress", "uploadSuccess", "selectCheckbox", "selectItems",
      "selectionWrapper", "selectAllCheckbox", "selectNoneCheckbox",
      "downloadButton", "deleteButton", "copyButton", "cutButton", "pasteButton",
      "viewModeButton", "gridViewButton", "listViewButton", "cardViewButton",
      "webAddressOption", "urlInput", "urlNameInput", "saveButton", "contentItems",
      "contentItem", "itemCheckbox", "itemMenu", "itemCard", "confirmDialog",
      "confirmDeleteButton", "cancelDeleteButton", "folderErrorText",
      "loadingSpinner">>

\* the fields the constructor assigns, in order
constructorAssigns ==
    <<"contentMediaLibraryButton", "contentHeader", "breadcrumb", "addButton",
      "folderOption", "folderNameInput", "acceptButton", "cancelButton",
      "folderCreated", "folderErrorText", "uploadFilesButton", "fileInput",
      "dropZone", "uploadProgress", "uploadSuccess", "selectCheckbox",
      "selectItems", "selectAllCheckbox", "selectNoneCheckbox", "downloadButton",
      "deleteButton", "copyButton", "cutButton", "pasteButton", "viewModeButton",
      "gridViewButton", "listViewButton", "cardViewButton", "webAddressOption",
      "urlInput", "urlNameInput", "saveButton", "contentItems", "contentItem",
      "itemMenu", "itemCheckbox", "confirmDialog", "confirmDeleteButton",
      "cancelDeleteButton", "loadingSpinner">>

\* the fields of type (name: string) => Locator
Factories == {"folderCreated", "contentItem", "itemCheckbox", "itemMenu", "itemCard"}

\* the other factory the body of a factory calls
FactoryUses(f) ==
    CASE f = "itemMenu" -> {"folderCreated"}
      [] f = "itemCheckbox" -> {"itemCard"}
      [] OTHER -> {}

\* this.f(name): a field without a value, called, raises a TypeError
FactoryResult(f) ==
    IF f \in cpAssigned /\ FactoryUses(f) \subseteq cpAssigned
        THEN "locator" ELSE "TypeError"

Constructed == cpPc > Len(constructorAssigns)

\* the next assignment of the constructor
CpAssign ==
    /\ ~Constructed
    /\ cpAssigned' = cpAssigned \cup {constructorAssigns[cpPc]}
    /\ cpPc' = cpPc + 1
    /\ UNCHANGED <<cpCall, cpResult, notCp>>

\* a method builds a locator with one of the factories
CpFactory ==
    /\ Constructed
    /\ \E f \in Factories, n \in Names :
         /\ cpCall' = [op |-> f, name |-> n]
         /\ cpResult' = FactoryResult(f)
    /\ UNCHANGED <<cpPc, cpAssigned, notCp>>

\* isItemChecked(name): return await this.itemCheckbox(name).isChecked()
CpIsItemChecked ==
    /\ Constructed
    /\ \E n \in Names, isChecked \in BOOLEAN :
         /\ cpCall' = [op |-> "isItemChecked", name |-> n]
         /\ cpResult' = IF FactoryResult("itemCheckbox") = "TypeError" THEN "TypeError"
                        ELSE IF isChecked THEN "true" ELSE "false"
    /\ UNCHANGED <<cpPc, cpAssigned, notCp>>

(***************************************************************************)
(* The specifications. Every part starts idle: no call of waitWithBackoff  *)
(* made, no dialog listener registered.                                    *)
(***************************************************************************)
Init ==
    /\ wbPc = "idle"
    /\ maxAttempts = 0
    /\ baseDelay = 0
    /\ attempt = 0
    /\ wbLog = <<>>
    /\ handlers = <<>>
    /\ dlgCalls = <<>>
    /\ dlgResolvedBy = "none"
    /\ dlgSeen = 0
    /\ dlgRejected = 0
    /\ flow = "Closed"
    /\ nameField = <<>>
    /\ folders = {}
    /\ items = <<>>
    /\ checked = {}
    /\ hovered = <<>>
    /\ uploads = <<>>
    /\ viewMode = "none"
    /\ viewOptions = "absent"
    /\ call = NoCall
    /\ folders0 = {}
    /\ page0 = [items |-> <<>>, checked |-> {}]
    /\ script = <<>>
    /\ log = <<>>
    /\ status = "idle"
    /\ ret = "void"
    /\ err = "none"
    /\ floating = "none"
    /\ testStatus = "none"
    /\ procEnv = [k \in Range(required) |-> "unset"]
    /\ dotEnv = [k \in Range(required) |-> "unset"]
    /\ gsStatus = "idle"
    /\ gsPc = 1
    /\ gsLog = <<>>
    /\ gsMissing = <<>>
    /\ gsUrl = "blank"
    /\ suitePc = "setup"
    /\ ctx = [t \in SuiteTests |-> NoContext]
    /\ testWrites = <<>>
    /\ envStatus = "idle"
    /\ envPc = 1
    /\ envLog = <<>>
    /\ dataFile = [readable |-> FALSE, json |-> FALSE, fields |-> {}, numbers |-> FALSE]
    /\ dataStatus = "idle"
    /\ auCall = "none"
    /\ auScript = <<>>
    /\ auLog = <<>>
    /\ auStatus = "idle"
    /\ auErr = "none"
    /\ auRet = "void"
    /\ auUrl = UrlBlank
    /\ auSession = "none"
    /\ auContext = "none"
    /\ dlPc = "idle"
    /\ dlStarted = FALSE
    /\ dlPending = FALSE
    /\ dlListener = FALSE
    /\ dlResolved = FALSE
    /\ dlLog = <<>>
    /\ cpPc = 1
    /\ cpAssigned = {}
    /\ cpCall = [op |-> "none", name |-> <<>>]
    /\ cpResult = "none"

WbNext == WbCall \/ WbLoop \/ WbCondition \/ WbSleep

SpecBackoff == Init /\ [][WbNext]_vars

DlgNext == AcceptAlert \/ DismissAlert \/ DialogEvent

SpecDialog == Init /\ [][DlgNext]_vars

\* a test that uses the BasePage methods directly
BaseNext ==
    \/ CallClick \/ CallFill \/ CallHover \/ CallSelectOption
    \/ CallIsVisible \/ CallWaitForVisible \/ CallWaitForHidden
    \/ DriverStep \/ AppFinish

SpecBase == Init /\ [][BaseNext]_vars

\* the folder operations of ContentPage and the scenarios that use them
PageNext ==
    \/ CallEnterFolderName \/ CallCreateFolder \/ CallFolderCreatedExists
    \/ CallNavigateToRoot \/ CallGetNameFolderDuplicate
    \/ RunTC_01_01 \/ RunTC_01_02 \/ RunTC_01_03
    \/ DriverStep \/ FloatingResolve \/ AppFinish

SpecPage == Init /\ [][PageNext]_vars

\* the upload operations of ContentPage, on an empty folder
UploadNext ==
    \/ CallUploadMultipleFiles \/ CallUploadByDragAndDrop
    \/ DriverStep \/ AppUploadDone

SpecUpload == Init /\ [][UploadNext]_vars

\* selection and deletion of the items of a folder
SelectNext ==
    \/ CallUploadSingleFile \/ CallSelectContentItem
    \/ CallSelectAllItems \/ CallSelectNoneItems \/ CallAreAllItemsChecked
    \/ CallDeleteSelectedContent \/ CallContentItemExists
    \/ DriverStep \/ AppUploadDone \/ AppDeleteStart \/ AppDeleteDone

SpecSelect == Init /\ [][SelectNext]_vars

\* the view modes
ViewNext ==
    \/ CallOpenViewModeMenu \/ CallSwitchToView \/ CallGetActiveViewMode
    \/ RunTC_03_04
    \/ DriverStep \/ AppViewMenuClose

SpecView == Init /\ [][ViewNext]_vars

SetupNext == GsCall \/ GsStep

SpecSetup == Init /\ [][SetupNext]_vars

SuiteNext ==
    \/ SuiteSetupCall \/ SuiteSetupStep \/ SuiteSetupEnd
    \/ TestStep \/ SuiteTeardown

SpecSuite == Init /\ [][SuiteNext]_vars

EnvNext == EnvImport \/ EnvStep

SpecEnv == Init /\ [][EnvNext]_vars

DataNext == DataCall \/ DataReturn

SpecData == Init /\ [][DataNext]_vars

AuthNext == AuCall \/ AuStep

SpecAuth == Init /\ [][AuthNext]_vars

\* a caller that uses one page object: the folder operations of ContentPage
\* that return no boolean, or LoginPage
PropagateNext ==
    \/ /\ auStatus = "idle"
       /\ \/ CallEnterFolderName \/ CallCreateFolder \/ CallNavigateToRoot
          \/ CallGetNameFolderDuplicate \/ DriverStep \/ AppFinish
    \/ /\ status = "idle"
       /\ AuCall \/ AuStep

SpecPropagate == Init /\ [][PropagateNext]_vars

DownloadNext == DlCall \/ DlClick \/ DlWaitForEvent \/ DlEmit \/ DlAwait

SpecDownload == Init /\ [][DownloadNext]_vars

ConstructNext == CpAssign \/ CpFactory \/ CpIsItemChecked

SpecConstruct == Init /\ [][ConstructNext]_vars

(***************************************************************************)
(* Claims about waitWithBackoff, checked under SpecBackoff.                *)
(***************************************************************************)
WbEvals == {k \in 1 .. Len(wbLog) : wbLog[k].ev = "eval"}
WbTrueEvals == {k \in WbEvals : wbLog[k].res}
WbSleeps == {k \in 1 .. Len(wbLog) : wbLog[k].ev = "sleep"}
WbFinished == wbPc \in {"returned", "thrown"}

\* C1 as stated: the delay slept immediately before the evaluation of attempt
\* i (0-based) is baseDelay * 2^i, for every attempt that is made.
C1_DelayBeforeAttempt ==
    \A k \in WbEvals :
        /\ k > 1
        /\ wbLog[k - 1].ev = "sleep"
        /\ wbLog[k - 1].val = baseDelay * (2 ^ wbLog[k].att)

\* C1 amended: nothing is slept before attempt 0; the delay baseDelay * 2^i is
\* slept immediately after the evaluation of attempt i has returned false, so
\* the delay immediately before attempt i >= 1 is baseDelay * 2^(i-1).
C1_DelayAfterFalseAttempt ==
    /\ \A k \in WbSleeps :
          /\ k > 1
          /\ wbLog[k - 1].ev = "eval"
          /\ ~wbLog[k - 1].res
          /\ wbLog[k].val = baseDelay * (2 ^ wbLog[k - 1].att)
    /\ \A k \in WbEvals :
          /\ wbLog[k].att = Cardinality({j \in WbEvals : j < k})
          /\ IF wbLog[k].att = 0
                THEN k = 1
                ELSE /\ wbLog[k - 1].ev = "sleep"
                     /\ wbLog[k - 1].val = baseDelay * (2 ^ (wbLog[k].att - 1))

\* a call that has slept after attempt 2 with a base delay of at least 2
C1_Witness ==
    \E k \in WbSleeps : wbLog[k].att >= 2 /\ baseDelay >= 2 /\ wbLog[k].val >= 8

C3_TrueObservedOnce ==
    /\ Cardinality(WbTrueEvals) <= 1
    /\ \A k \in WbTrueEvals :
          /\ k = Len(wbLog)
          /\ wbPc = "returned"
          /\ wbLog[k].att < maxAttempts
    /\ wbPc = "returned" => WbTrueEvals # {}

\* a call that returned on a true evaluation that followed two false ones
C3_Witness ==
    /\ wbPc = "returned"
    /\ Cardinality(WbEvals) >= 3
    /\ Last(wbLog).res

(***************************************************************************)
(* Claims about the dialog handlers, checked under SpecDialog.             *)
(***************************************************************************)
DlgPolicies == {dlgCalls[i].policy : i \in 1 .. Len(dlgCalls)}

\* C6: once both acceptAlert and dismissAlert have been called, each later
\* dialog is resolved exactly once, by the most recently registered policy
\* alone (one active policy, last-registered wins).
C6_LastRegisteredWins ==
    ({"accept", "dismiss"} \subseteq DlgPolicies) =>
        /\ dlgResolvedBy = Last(dlgCalls).policy
        /\ Cardinality({i \in 1 .. Len(dlgCalls) : dlgCalls[i].ok}) = 1
        /\ Len(dlgCalls) = 1

(***************************************************************************)
(* Claims about BasePage, checked under SpecBase.                          *)
(***************************************************************************)
BaseActions == {"click", "fill", "hover", "selectOption"}
LogActs == {k \in 1 .. Len(log) : log[k].kind \in BaseActions}
LogWaits == {k \in 1 .. Len(log) : log[k].kind = "waitFor"}

\* C4: click, fill, hover and selectOption issue their driver action only
\* after a wait-for-visible on the same locator has succeeded; when the wait
\* times out the action is never issued, the TimeoutError reaches the caller,
\* and the wait is made once only.
C4_ActOnlyAfterVisible ==
    /\ \A k \in LogActs :
          /\ k > 1
          /\ log[k - 1].kind = "waitFor"
          /\ log[k - 1].state = "visible"
          /\ log[k - 1].loc = log[k].loc
          /\ log[k - 1].out = "ok"
    /\ call.op \in BaseActions =>
          /\ Cardinality(LogWaits) <= 1
          /\ Cardinality(LogActs) <= 1
          /\ \A k \in LogActs : log[k].kind = call.op /\ log[k].loc = call.loc
          /\ \A k \in LogWaits :
                /\ k = 1
                /\ log[k].loc = call.loc
                /\ log[k].out # "ok" =>
                      /\ log[k].out = "TimeoutError"
                      /\ Len(log) = 1
                      /\ status = "threw"
                      /\ err = "TimeoutError"

\* a hover whose wait for the element timed out
C4_Witness ==
    /\ call.op = "hover"
    /\ status = "threw"
    /\ Len(log) = 1
    /\ log[1].out = "TimeoutError"

\* C5: isVisible never throws: it returns true when the wait for the element
\* succeeds and false when the wait fails, and none of its steps changes the
\* page.
C5_IsVisibleNeverThrows ==
    /\ [](call.op = "isVisible" =>
            /\ status # "threw"
            /\ err = "none"
            /\ status = "returned" =>
                  /\ Len(log) = 1
                  /\ log[1].kind = "waitFor" /\ log[1].loc = call.loc
                  /\ ret = (IF log[1].out = "ok" THEN "true" ELSE "false"))
    /\ [][(call.op = "isVisible" /\ status = "running") => UNCHANGED appVars
             \/ (flow = "Submitted" /\ log' = log)]_vars

\* an isVisible that returned false
C5_Witness ==
    /\ call.op = "isVisible"
    /\ status = "returned"
    /\ ret = "false"
    /\ log[1].out = "TimeoutError"

(***************************************************************************)
(* Claims about the folder flow, checked under SpecPage.                   *)
(***************************************************************************)
IsFlowStep(e) == ~(e.kind = "waitFor" /\ e.state = "visible")

\* what createFolder did besides waiting for visibility, in order
FlowSteps == SelectSeq(log, IsFlowStep)

\* the flow of "create a folder": each step with the state it leads to
FolderFlow(name) ==
    << [kind |-> "click", loc |-> "addButton", flow |-> "MenuOpen"],
       [kind |-> "click", loc |-> "folderOption", flow |-> "DialogOpen"],
       [kind |-> "fill", loc |-> "folderNameInput",
        flow |-> IF HasForbidden(name) THEN "DialogOpen" ELSE "NameEntered"],
       [kind |-> "click", loc |-> "acceptButton", flow |-> "Submitted"],
       [kind |-> "waitFor", loc |-> "confirmDialog", flow |-> "Closed"] >>

\* C7: createFolder(name) drives the flow in the order Closed -> MenuOpen
\* (click add) -> DialogOpen (click folder option) -> NameEntered (fill name)
\* -> Submitted (click accept) -> Closed, no step skipped or reordered, and
\* returns normally only after the confirmation dialog was seen hidden.
C7_CreateFolderOrder ==
    call.op = "createFolder" =>
        /\ Len(FlowSteps) <= 5
        /\ \A i \in 1 .. Len(FlowSteps) :
              /\ FlowSteps[i].kind = FolderFlow(call.name)[i].kind
              /\ FlowSteps[i].loc.id = FolderFlow(call.name)[i].loc
              /\ FlowSteps[i].out = "ok" => FlowSteps[i].flow = FolderFlow(call.name)[i].flow
              /\ i < Len(FlowSteps) => FlowSteps[i].out = "ok"
              /\ i = 3 => FlowSteps[i].value = call.name
        /\ \A k \in 1 .. Len(log) :
              (k > 1 /\ log[k - 1].kind = "waitFor" /\ log[k - 1].state = "visible")
                  => IsFlowStep(log[k])
        /\ status = "returned" =>
              /\ Len(FlowSteps) = 5
              /\ Last(log).kind = "waitFor" /\ Last(log).state = "hidden"
              /\ Last(log).loc = confirmDialog
              /\ Last(log).out = "ok"
              /\ flow = "Closed"

\* a createFolder that returned normally
C7_Witness ==
    /\ call.op = "createFolder"
    /\ status = "returned"
    /\ Len(log) = 9

ForbiddenNameCall ==
    \/ call.op \in {"enterFolderName", "createFolder"} /\ HasForbidden(call.name)
    \/ call.op = "TC-01-03" /\ HasForbidden(call.name2)

NameWasEntered == \E k \in 1 .. Len(log) : log[k].kind = "fill" /\ log[k].out = "ok"

\* C8: for every folder name with a forbidden character: once the name is
\* entered the confirm control is disabled and the flow stays in DialogOpen,
\* createFolder does not return normally, and no folder is created (the tree
\* is what it was when the operation began).
C8_ForbiddenNameCreatesNothing ==
    /\ \A n \in folders : ~HasForbidden(n)
    /\ ForbiddenNameCall =>
          /\ folders = folders0
          /\ status # "returned" \/ call.op # "createFolder"
          /\ NameWasEntered =>
                /\ flow = "DialogOpen"
                /\ Visible(acceptButton)
                /\ ~Enabled(acceptButton)

\* a createFolder with a forbidden name that entered the name and then failed
C8_Witness ==
    /\ call.op = "createFolder"
    /\ HasForbidden(call.name)
    /\ NameWasEntered
    /\ status = "threw"
    /\ err = "TimeoutError"

\* C9: TC-01-03 observes the confirm control as disabled before it completes:
\* it never finishes as passed unless the disabled-state check was evaluated
\* and held.
C9_DisabledCheckObserved ==
    (call.op = "TC-01-03" /\ HasForbidden(call.name2) /\ testStatus = "passed")
        => floating = "passed"

\* C10: for every name without forbidden characters, once createFolder(name)
\* has returned normally the tree shows an entry of exactly that name and
\* folderCreatedExists(name) returns true (in TC-01-01 the expectation on it
\* holds).
C10_CreatedFolderExists ==
    /\ (call.op = "createFolder" /\ status = "returned" /\ ~HasForbidden(call.name))
          => Visible(folderCreated(call.name))
    /\ (call.op = "folderCreatedExists" /\ status = "returned")
          => (ret = "true" <=> call.name \in folders)
    /\ call.op = "TC-01-01" =>
          /\ \A k \in 1 .. Len(log) : log[k].kind = "expectTruthy" => log[k].out = "ok"
          /\ status # "threw"
          /\ status = "returned" => testStatus = "passed" /\ call.name \in folders

\* TC-01-01 has passed for a name that was not in the tree before
C10_Witness ==
    /\ call.op = "TC-01-01"
    /\ testStatus = "passed"
    /\ call.name \notin folders0
    /\ call.name \in folders

\* C11: createFolder(name) at a place where a sibling named name exists (and
\* no entry name(1) yet) does not fail once it has opened the dialog (it fails
\* only when the page it starts on does not let it open the menu and the
\* dialog, its first four driver operations); when it has returned, the tree shows
\* one new entry, named name followed by "(1)", next to the unchanged entries
\* it showed before; getNameFolderDuplicate(name) returns that name, and
\* TC-01-02 never fails.
C11_DuplicateGetsSuffix ==
    /\ (call.op = "createFolder" /\ status = "returned" /\ call.name \in folders0
           /\ (call.name \o <<"(", "1", ")">>) \notin folders0)
          => /\ folders = folders0 \cup {call.name \o <<"(", "1", ")">>}
             /\ call.name \in folders
    /\ (call.op = "createFolder" /\ status = "threw" /\ call.name \in folders0)
          => Len(log) <= 4
    /\ (call.op = "getNameFolderDuplicate" /\ status = "returned")
          => /\ Last(log).kind = "textContent"
             /\ Last(log).value = call.name \o <<"(", "1", ")">>
             /\ Last(log).value \in folders
    /\ call.op = "TC-01-02" =>
          /\ status # "threw"
          /\ folders0 \subseteq folders
          /\ status = "returned" =>
                /\ testStatus = "passed"
                /\ {call.name2, call.name2 \o <<"(", "1", ")">>} \subseteq folders

\* TC-01-02 has passed on a tree that had neither the name nor its duplicate
C11_Witness ==
    /\ call.op = "TC-01-02"
    /\ testStatus = "passed"
    /\ call.name2 \notin folders0
    /\ (call.name2 \o <<"(", "1", ")">>) \in folders
    /\ \E k \in 1 .. Len(log) :
          log[k].kind = "textContent" /\ log[k].value = call.name2 \o <<"(", "1", ")">>

(***************************************************************************)
(* Claims about uploads (SpecUpload), selection and deletion (SpecSelect)  *)
(* and view modes (SpecView).                                              *)
(***************************************************************************)
UploadCall == call.op \in {"uploadMultipleFiles", "uploadByDragAndDrop"}

\* the files of the list whose success indicator a wait has seen visible
SuccessSeen ==
    {i \in 1 .. Len(SuccessIds) :
        \E k \in 1 .. Len(log) :
            log[k].kind = "waitFor" /\ log[k].loc = fileSuccess(i) /\ log[k].out = "ok"}

AllUploadsSucceeded ==
    /\ Len(uploads) = Len(call.name)
    /\ \A i \in 1 .. Len(uploads) : uploads[i].st = "success"

\* C12: for a list of N >= 1 files, uploadMultipleFiles and uploadByDragAndDrop
\* return normally only after the success indicator of each of the N files was
\* seen visible, wait for no more than those N, and do not fail when all N
\* uploads have succeeded.
C12_WaitsForEachFile ==
    UploadCall =>
        /\ SuccessSeen \subseteq 1 .. Len(call.name)
        /\ status = "returned" => SuccessSeen = 1 .. Len(call.name)
        /\ AllUploadsSucceeded => status # "threw"

\* C13: when selectAllItems has returned every item's checkbox is checked, when
\* selectNoneItems has returned every item's checkbox is unchecked;
\* areAllItemsChecked never fails and returns true exactly when there is an
\* item and every item's checkbox is checked, so true after select all on a
\* non-empty set, false after the following select none, false for no items.
C13_SelectAllNone ==
    /\ (call.op = "selectAllItems" /\ status = "returned") => checked = Range(items)
    /\ (call.op = "selectNoneItems" /\ status = "returned") => checked = {}
    /\ call.op = "areAllItemsChecked" =>
          /\ status # "threw"
          /\ status = "returned" =>
                /\ ret = IF items # <<>> /\ checked = Range(items) THEN "true" ELSE "false"
                /\ items = <<>> => ret = "false"
                /\ (items # <<>> /\ checked = {}) => ret = "false"

\* areAllItemsChecked has returned true for two items, both checked
C13_Witness ==
    /\ call.op = "areAllItemsChecked"
    /\ status = "returned"
    /\ ret = "true"
    /\ Len(items) >= 2
    /\ checked = Range(items)

C15_ActiveModeNeverThrows ==
    call.op = "getActiveViewMode" =>
        /\ status # "threw"
        /\ status = "returned" => ret = IF viewMode \in Modes THEN viewMode ELSE "unknown"

\* the driver operations deleteSelectedContent makes, in order
DeleteSteps ==
    << [kind |-> "waitFor", loc |-> deleteButton], [kind |-> "click", loc |-> deleteButton],
       [kind |-> "waitFor", loc |-> confirmDeleteButton],
       [kind |-> "click", loc |-> confirmDeleteButton],
       [kind |-> "waitFor", loc |-> confirmDialog],
       [kind |-> "waitFor", loc |-> loadingSpinner] >>

CheckboxClicks ==
    {k \in 1 .. Len(log) : log[k].kind = "click" /\ log[k].loc.id = "cardCheckbox"}

\* C17: selectContentItem(name) hovers the card of name first and clicks its
\* checkbox only after that hover succeeded, once; when the hover fails no
\* checkbox is clicked and the error reaches the caller.
C17_HoverThenClick ==
    call.op = "selectContentItem" =>
        /\ Len(log) <= 2
        /\ Cardinality(CheckboxClicks) <= 1
        /\ Len(log) >= 1 =>
              /\ log[1].kind = "hover"
              /\ log[1].loc = contentItem(call.name)
              /\ log[1].out # "ok" => (Len(log) = 1 /\ status = "threw")
        /\ Len(log) = 2 =>
              /\ log[1].out = "ok"
              /\ log[2].kind = "click"
              /\ log[2].loc = cardCheckbox(call.name)
        /\ status = "returned" => (Len(log) = 2 /\ log[2].out = "ok")

\* a selectContentItem that hovered, clicked and left the item selected
C17_Witness ==
    /\ call.op = "selectContentItem"
    /\ status = "returned"
    /\ Cardinality(CheckboxClicks) = 1
    /\ call.name \in checked

DriverActions ==
    {"click", "fill", "hover", "selectOption", "textContent", "getAttribute", "isChecked"}

\* C18: every driver action a page-object operation issues comes, in the same
\* operation, after a wait that found the same element visible.
C18_EveryActionWaits ==
    \A k \in 1 .. Len(log) :
        log[k].kind \in DriverActions =>
            \E j \in 1 .. (k - 1) :
                /\ log[j].kind = "waitFor"
                /\ log[j].state = "visible"
                /\ log[j].loc = log[k].loc
                /\ log[j].out = "ok"

(***************************************************************************)
(* Claims about globalSetup, checked under SpecSetup.                      *)
(***************************************************************************)
\* the steps made, successfully or not
GsStepsTried == [i \in 1 .. Len(gsLog) |-> gsLog[i].step]

GsDid(step) == \E i \in 1 .. Len(gsLog) : gsLog[i].step = step /\ gsLog[i].ok

GsTried(step) == \E i \in 1 .. Len(gsLog) : gsLog[i].step = step

GsEffects ==
    {"mkdir", "launch", "newPage", "goto", "fillUser", "fillPassword", "clickLogin",
     "waitForURL", "storageState"}

\* C19: when one of BASE_URL, USER_EMAIL, USER_PASSWORD is missing or empty
\* (in process.env with the .env file loaded) globalSetup fails, its error
\* names every missing variable, and it has then created no directory,
\* launched no browser, attempted no login and written no snapshot.
C19_FailsFastOnMissingEnv ==
    (gsStatus # "idle" /\ Missing(Loaded(procEnv, dotEnv)) # <<>>) =>
        /\ gsStatus # "done"
        /\ \A e \in GsEffects : ~GsTried(e)
        /\ gsStatus = "failed" =>
              /\ gsMissing = Missing(Loaded(procEnv, dotEnv))
              /\ \A k \in Range(required) :
                    Loaded(procEnv, dotEnv)[k] \in {"unset", "empty"}
                        => k \in Range(gsMissing)
              /\ GsStepsTried = <<"validate", "throw">>

\* a run that failed naming two missing variables, one unset and one empty
C19_Witness ==
    /\ gsStatus = "failed"
    /\ Len(gsMissing) = 2
    /\ \E k \in Range(gsMissing) : procEnv[k] = "empty"
    /\ \E k \in Range(gsMissing) : procEnv[k] = "unset"

LoginOrder == <<"goto", "fillUser", "fillPassword", "clickLogin", "waitForURL", "storageState">>

\* the login steps made, in the order they were made
LoginStepsTried == SelectSeq(GsStepsTried, LAMBDA x : x \in Range(LoginOrder))

\* C20: the login steps are made in the order navigate, fill user, fill
\* password, click login, wait for URL, write snapshot; the snapshot is
\* written only after the wait found the dashboard URL; when the login does
\* not reach it no snapshot is written and globalSetup fails.
C20_SnapshotOnlyAfterLanding ==
    /\ LoginStepsTried = SubSeq(LoginOrder, 1, Len(LoginStepsTried))
    /\ \A i \in 1 .. Len(gsLog) :
          gsLog[i].step = "storageState" =>
              /\ gsUrl = "dashboard"
              /\ \E j \in 1 .. (i - 1) : gsLog[j].step = "waitForURL" /\ gsLog[j].ok
    /\ (GsDid("clickLogin") /\ gsUrl # "dashboard" /\ gsStatus # "running") =>
          /\ gsStatus = "failed"
          /\ ~GsTried("storageState")
          /\ Last(gsLog).step = "throw"
    /\ gsStatus = "done" => GsDid("storageState")

\* a run whose login did not reach the dashboard
C20_Witness ==
    /\ gsStatus = "failed"
    /\ GsDid("clickLogin")
    /\ gsUrl = "login"
    /\ GsTried("waitForURL")
    /\ ~GsTried("storageState")

(***************************************************************************)
(* Claims about the run of the suite, checked under SpecSuite.             *)
(***************************************************************************)
TestsStarted == {t \in SuiteTests : ctx[t].pc > 1}

\* C21: auth/storageState.json is written once, by globalSetup, before any
\* test begins, and by nothing else: no test writes it; a test of
\* login.spec.ts begins with an empty session in its own context while the
\* file keeps the session and the other tests load it.
C21_SnapshotWrittenOnce ==
    /\ Len(SnapshotWriters) <= 1
    /\ testWrites = <<>>
    /\ TestsStarted # {} =>
         /\ SnapshotWriters = <<"globalSetup">>
         /\ SnapshotFile = "session"
    /\ \A t \in TestsStarted :
         ctx[t].loaded = IF t = "TC-LOGIN-01" THEN "empty" ELSE "session"

\* the login test has logged in within its context, while a content test
\* runs on the snapshot
C21_Witness ==
    /\ ctx["TC-LOGIN-01"].pc = 4
    /\ ctx["TC-LOGIN-01"].state = "session"
    /\ ctx["TC-LOGIN-01"].loaded = "empty"
    /\ ctx["TC-01-01"].pc = 3
    /\ ctx["TC-01-01"].loaded = "session"
    /\ SnapshotWriters = <<"globalSetup">>

(***************************************************************************)
(* Claims about the environment configuration module, checked under        *)
(* SpecEnv.                                                                 *)
(***************************************************************************)
EnvSteps == [i \in 1 .. Len(envLog) |-> envLog[i].step]

\* C22: an import with BASE_URL, USER_EMAIL or USER_PASSWORD missing ends in
\* process.exit(1), after a report that names every missing variable; no
\* error is thrown before it and no config is exported.
C22_MissingEnvExits ==
    (envStatus \notin {"idle", "loading"} /\ Missing(Loaded(procEnv, dotEnv)) # <<>>) =>
        /\ envStatus = "exited"
        /\ \A i \in 1 .. Len(envLog) : envLog[i].step \notin {"throw", "export"}
        /\ \E i \in 1 .. Len(envLog) :
             envLog[i] = EnvEntry("console.error", Missing(Loaded(procEnv, dotEnv)))

(***************************************************************************)
(* Claims about loadTestData, checked under SpecData.                      *)
(***************************************************************************)
\* C23: loadTestData throws its load error for every file whose content is
\* not a ContentData, and never returns a value that violates the schema.
C23_LoadRejectsNonConforming ==
    (dataStatus \in {"returned", "threw"} /\ ~ConformsToContentData(dataFile)) =>
        dataStatus = "threw"

(***************************************************************************)
(* Claims about the propagation of errors, checked under SpecPropagate.    *)
(***************************************************************************)
FailedSteps == {i \in 1 .. Len(log) : log[i].out # "ok"}

AuFailedSteps ==
    {i \in 1 .. Len(auLog) : auLog[i].out # "ok" /\ auLog[i].step # "console.error"}

\* C24: in an operation that returns no boolean, a step that fails is the
\* last step the operation issues, and the operation throws that step's
\* error: createFolder after a failed step clicks nothing more, and
\* LoginPage.login, having logged the error, throws the same error.
C24_FailurePropagates ==
    /\ \A i \in FailedSteps :
         /\ i = Len(log)
         /\ status = "threw"
         /\ err = log[i].out
    /\ status = "returned" => FailedSteps = {}
    /\ \A i \in AuFailedSteps :
         /\ auStatus = "threw"
         /\ auErr = auLog[i].out
         /\ \A j \in (i + 1) .. Len(auLog) : auLog[j] = AuEntry("console.error", auErr)
    /\ auStatus = "returned" => AuFailedSteps = {}

\* LoginPage.login failed at the fill of the user name: it logged the error
\* and threw it, and filled and clicked nothing more
C24_Witness ==
    /\ auCall = "login"
    /\ auStatus = "threw"
    /\ auLog = <<AuEntry("waitForVisible(loginForm)", "ok"),
                 AuEntry("fill(usernameInput)", "TimeoutError"),
                 AuEntry("console.error", "TimeoutError")>>
    /\ auErr = "TimeoutError"

(***************************************************************************)
(* Claims about the operations in flight on one page, checked under        *)
(* SpecPage.                                                               *)
(***************************************************************************)
\* the assertion that was started and not awaited is still polling the page
FloatingInFlight == floating = "pending"

\* C25: a page never has two driver operations outstanding: while one is in
\* flight, the test, its hooks and the page object issue no other.
C25_OneOperationInFlight == [][FloatingInFlight => script' = script]_vars

(***************************************************************************)
(* Claims about downloadSelectedContent, checked under SpecDownload.       *)
(***************************************************************************)
\* C26: a call of downloadSelectedContent whose click started a download
\* does not fail, however the browser's event and the method interleave, and
\* no 'download' event goes unheard.
C26_DownloadIsNotLost ==
    /\ dlStarted => dlPc # "threw"
    /\ \A i \in 1 .. Len(dlLog) : dlLog[i] # "download lost"

(***************************************************************************)
(* Claims about LoginPage and the fixture, checked under SpecAuth.         *)
(***************************************************************************)
AuStepsMade == {auLog[i].step : i \in 1 .. Len(auLog)}

\* C27: isLoginSuccessful returns true only if the login succeeded: after
\* rejected credentials, with the browser still on the login page that
\* goToLoginPage reached, it returns false, and the fixture
\* authenticatedContext throws 'Login failed' instead of handing out its
\* context.
C27_TrueOnlyAfterLogin ==
    /\ (auCall = "isLoginSuccessful" /\ auStatus = "returned" /\ auRet = "true")
           => auSession = "accepted"
    /\ (auCall = "authenticatedContext" /\ "use" \in AuStepsMade)
           => auSession = "accepted"

\* C30: what is opened for the authentication is closed on every way out:
\* the context the fixture authenticatedContext made is closed when the
\* fixture has ended, whether its check passed, the login threw, or
\* 'Login failed' was thrown.
C30_ContextClosedOnEveryExit ==
    (auCall = "authenticatedContext" /\ auStatus \in {"returned", "threw"}
        /\ AuEntry("newContext", "ok") \in Range(auLog))
        => auContext = "closed"

(***************************************************************************)
(* Claims about the fields of ContentPage, checked under SpecConstruct.    *)
(***************************************************************************)
\* C28: once the constructor has run, every locator and locator factory the
\* class declares has a value, and isItemChecked(name) answers with the
\* state of the item's checkbox: it does not fail for want of a locator.
C28_EveryLocatorAssigned ==
    /\ Constructed => Range(declaredFields) \subseteq cpAssigned
    /\ cpCall.op = "isItemChecked" => cpResult \in {"true", "false"}

(***************************************************************************)
(* The time waitWithBackoff sleeps, checked under SpecBackoff.             *)
(***************************************************************************)
\* the sum of the delays slept in the log
RECURSIVE WbSlept(_)
WbSlept(l) ==
    IF l = <<>> THEN 0
    ELSE (IF Head(l).ev = "sleep" THEN Head(l).val ELSE 0) + WbSlept(Tail(l))

\* C29: a call that fails after maxAttempts >= 1 false evaluations has slept
\* baseDelay * (2^maxAttempts - 1) in all, the last sleep coming after the
\* last evaluation and before the throw; a call with maxAttempts <= 0 fails
\* without an evaluation and without a sleep.
C29_TotalSleptOnFailure ==
    wbPc = "thrown" =>
        IF maxAttempts >= 1
            THEN /\ WbSlept(wbLog) = baseDelay * (Pow2(maxAttempts) - 1)
                 /\ Cardinality(WbEvals) = maxAttempts
                 /\ Cardinality(WbSleeps) = maxAttempts
                 /\ wbLog[Len(wbLog) - 1].ev = "sleep"
                 /\ wbLog[Len(wbLog) - 2].ev = "eval"
            ELSE Len(wbLog) = 1

\* three false evaluations with baseDelay 2: 2 + 4 + 8 slept, then the throw
C29_Witness ==
    /\ wbPc = "thrown"
    /\ maxAttempts = 3
    /\ baseDelay = 2
    /\ WbSlept(wbLog) = 14
    /\ Last(wbLog).ev = "throw"

====
